---- MODULE Spec2Model ----
(***************************************************************************)
(* State-machine model of the LRU buffer pool (LRUBufferPool, Page,        *)
(* Page::PinGuard) and of the backing file it reads and writes.            *)
(*                                                                         *)
(* A client thread runs read_page / write_page.  GetPage runs under the    *)
(* pool mutex latch_ and is split at every point where it reads state that *)
(* other threads change without the mutex (pin counts, the frame latch,    *)
(* the dirty flag).  PinGuard, ReadAt and WriteAt run after the mutex was  *)
(* released; the byte copies of ReadAt / WriteAt are one step per byte.    *)
(*                                                                         *)
(* The module also holds the construction of the pool from any page-size   *)
(* map, the uncached SimpleBufferPool, and the server process of           *)
(* example.cpp: main thread, signal handler, clients, one worker thread    *)
(* per connection, each worker driving the pool through the same steps.    *)
(***************************************************************************)
EXTENDS Integers, Sequences, FiniteSets, TLC

\* ------------------------------------------------------------------ bounds
NumThreads == 2      \* client (worker) threads
NumPages == 3        \* page numbers 0 .. NumPages-1
MaxCapacity == 2     \* configured capacities 1 .. MaxCapacity
PageSize == 2        \* bytes of a page (the configured page size)
MaxVal == 2          \* payload bytes are 1 .. MaxVal; 0 is the zero fill
MaxOps == 3          \* read_page / write_page calls in one run of several threads
MaxSeqOps == 4       \* read_page / write_page calls in one run of a single thread
MaxFileLen == 3      \* bytes of the backing file before the pool opens it
MaxCfgOps == 3       \* read_page / write_page calls in one run with any configuration
MaxSimpleOps == 2    \* read_page / write_page calls in one run of the uncached pool
NumGuards == 2       \* PinGuard objects in one scope
MaxPinOps == 4       \* pin() / unpin() calls made on a Page used on its own
MaxGuardOps == 5     \* constructions, moves and destructions of PinGuard objects
MaxPageOps == 3      \* method calls made on a Page used on its own
MaxLiveOps == 3      \* read_page / write_page calls in a run checked for termination
NumFds == 2          \* descriptors SimpleBufferPool opens on the file
MaxWorkers == 3      \* connections the server accepts in a run with several workers
MaxSharedOps == 2    \* calls of the workers that use one SimpleBufferPool together
MaxSrvReqs == 2      \* requests the clients of the server send in one run

Threads == 1..NumThreads
PageIds == 0..(NumPages - 1)
Capacities == 1..MaxCapacity
NumFrames == MaxCapacity + 2 * NumThreads
FrameIds == 1..NumFrames
NoFrame == 0
NoThread == 0
NoPage == 0 - 1
Poison == MaxVal + 1 \* content of a caller buffer the pool has not filled
Units == {"server.cpp", "example.cpp"}   \* the translation units of the executable

Min(a, b) == IF a <= b THEN a ELSE b
Max(a, b) == IF a >= b THEN a ELSE b
Zeros(n) == [i \in 1..n |-> 0]
Uniform(n, v) == [i \in 1..n |-> v]

\* the buffers a client passes to write_page, and the one it passes to read_page
WriteBufs(n) == {Uniform(n, v) : v \in 1..MaxVal}
ReadBuf(n) == Uniform(n, Poison)

\* the files the pool may be opened on: absent/empty, or holding a few bytes
InitialFiles == {<<>>, Uniform(MaxFileLen, 1)}

VARIABLES
    \* LRUBufferPool
    fd_,            \* TRUE while the backing file is open (the pool is alive)
    capacity_,
    page_size_,
    page_table_,    \* page number -> frame, NoFrame when absent
    lru_list_,      \* page numbers, most recent first
    latch_,         \* the pool mutex: its holder, or NoThread
    hit_count_,
    miss_count_,
    \* the Page objects (frames) and the backing file
    frames,
    file,
    \* locals of a client thread inside read_page / write_page
    pc, op, no, page_size, buf, page, idx,
    \* locals of the thread inside EvictIfNeeded / flush_to_fd
    it, victim, tmp, rc,
    \* history variables, read only by the properties
    file0,          \* the backing file as it was before the pool opened it
    calls,          \* read_page / write_page calls issued so far
    lastWrite,      \* page -> bytes of its last completed write_page, <<>> if none or racing
    everWritten,    \* page -> a write_page of it was called
    expect,         \* thread -> bytes its read_page must return, <<>> if unconstrained
    overlap,        \* thread -> its write_page overlapped another write of the page
    recency,        \* resident pages by last access, most recent first
    skipped,        \* pages the running eviction walk found pinned
    evicted,        \* pages erased by the eviction of the running GetPage
    completed,      \* read_page / write_page calls that returned, in this pool's life
    \* BufferPool: the configuration the pool was constructed with
    page_no_info_,  \* page size -> page count (a std::map: keys in ascending order)
    \* SimpleBufferPool: local of read_page / write_page
    start_offset,   \* the offset page_start_offset returned
    \* the two translation units' statics, the server and its clients
    g_program_shutdown, \* translation unit -> flag
    server_socket,      \* translation unit -> descriptor, -1 when unset
    listener,           \* state of the listening socket in the kernel
    main_pc,            \* position of the main thread (example.cpp, listen_forever)
    client_socket,      \* worker -> state of its connection
    inbox,              \* worker -> requests its client sent, not yet read
    sent,               \* worker -> responses written to its client
    heard,              \* worker -> headers read from its client
    sigint,             \* signal_handler has run
    short_read,         \* workers whose read of a SET payload failed
    \* a Page and its PinGuards used on their own, outside the pool
    local,          \* thread -> locals of the Page method it runs
    held,           \* pins taken by pin() less the unpin() calls that saw a count above 0
    guards,         \* PinGuard objects: alive or not, and the frame each holds
    \* SimpleBufferPool used by several workers
    fds_,           \* descriptor index -> file position of the descriptor
    t_idx,          \* worker -> the thread index the server gave it
    thread_count    \* listen_forever: the index the next worker gets

poolVars == <<fd_, capacity_, page_size_, page_table_, lru_list_, latch_,
              hit_count_, miss_count_>>
threadVars == <<pc, op, no, page_size, buf, page, idx>>
evictVars == <<it, victim, tmp, rc>>
ghostVars == <<file0, calls, lastWrite, everWritten, expect, overlap, recency,
               skipped, evicted, completed>>
srvVars == <<g_program_shutdown, server_socket, listener, main_pc, client_socket,
             inbox, sent, heard, sigint>>
unitVars == <<short_read, local, held, guards>>
simpleVars == <<fds_, t_idx, thread_count>>
extVars == <<page_no_info_, start_offset, srvVars, unitVars, simpleVars>>
vars == <<poolVars, frames, file, threadVars, evictVars, ghostVars, extVars>>

\* ------------------------------------------------------------------ Page
\* Page::Page: zeroed buffer, pin_count 0, not dirty, not loaded, latch free
NewPage(id, size) ==
    [id |-> id, size |-> size, data |-> Zeros(size), pin_count |-> 0,
     dirty |-> FALSE, loaded |-> FALSE, readers |-> 0, writer |-> FALSE]

\* a frame slot no shared_ptr refers to
NullPage == NewPage(NoPage, 0)

\* faulty variant of UnpinValue: unpin leaves the count as it was
UnpinValue_NoDecrement(prev) == prev

\* Page::unpin: the value the count ends with, given the value it had
UnpinValue(prev) == IF prev <= 0 THEN 0 ELSE prev - 1

\* faulty variant of CopyLen: the length is not clamped to the end of the page
CopyLen_NoClamp(size, offset, len) == len

\* std::min(len, page_size_ - offset) in ReadAt / WriteAt, with offset < size
CopyLen(size, offset, len) == Min(len, size - offset)

\* bytes [off+1 .. off+n] of the file as pread sees them: r bytes, r chosen by the OS
RECURSIVE LoadLoop(_, _, _, _)
LoadLoop(f, off, data, total) ==
    IF total >= Len(data) THEN {data}
    ELSE LET avail == Len(f) - (off + total) IN
         IF avail <= 0
         THEN {[i \in 1..Len(data) |-> IF i > total THEN 0 ELSE data[i]]}
         ELSE UNION {LoadLoop(f, off,
                        [i \in 1..Len(data) |->
                            IF i > total /\ i <= total + r THEN f[off + i] ELSE data[i]],
                        total + r)
                     : r \in 1..Min(Len(data) - total, avail)}

\* pwrite of bytes (from, to] of src at file offset off: the file grows, holes are zero
WriteBytes(f, off, src, from, to) ==
    [i \in 1..Max(Len(f), off + to) |->
        IF i > off + from /\ i <= off + to THEN src[i - off]
        ELSE IF i <= Len(f) THEN f[i] ELSE 0]

\* the write loop of flush_to_fd when every pwrite succeeds (short writes allowed)
RECURSIVE FlushLoop(_, _, _, _)
FlushLoop(f, off, src, total) ==
    IF total >= Len(src) THEN {f}
    ELSE UNION {FlushLoop(WriteBytes(f, off, src, total, total + w), off, src, total + w)
                : w \in 1..(Len(src) - total)}

\* LoadPageFromDisk: the file offset a page is read from, no * page_size of the request
LoadOffset(k, s) == k * s

\* FlushPage: the file offset a frame is written to, id * page_size_ of the pool
FlushOffset(pg) == pg.id * page_size_

\* ------------------------------------------------------------------ helpers
Resident == {k \in PageIds : page_table_[k] # NoFrame}
Size == Cardinality(Resident)
RemoveAt(s, i) == [j \in 1..(Len(s) - 1) |-> IF j < i THEN s[j] ELSE s[j + 1]]
Remove(s, x) == SelectSeq(s, LAMBDA y : y # x)
PushFront(s, x) == <<x>> \o s

\* shared_ptr<Page>: a frame lives while the index, a thread or the evictor holds it
Referenced(pt, pg, vic) ==
    {pt[k] : k \in PageIds} \cup {pg[t] : t \in Threads}
      \cup (IF vic = NoPage THEN {} ELSE {pt[vic]})
Reclaim(fr, pt, pg, vic) ==
    [f \in FrameIds |-> IF f \in Referenced(pt, pg, vic) THEN fr[f] ELSE NullPage]
FreeFrame == CHOOSE f \in FrameIds :
                /\ f \notin Referenced(page_table_, page, victim)
                /\ \A g \in FrameIds : g < f => g \in Referenced(page_table_, page, victim)

\* the bytes of page k in file f at page size s, zero past the end of the file
FilePage(f, k, s) == [i \in 1..s |-> IF k * s + i <= Len(f) THEN f[k * s + i] ELSE 0]

WritersOf(k) == {t \in Threads : pc[t] \notin {"idle", "done"} /\ op[t] = "write" /\ no[t] = k}
ReadersOf(k) == {t \in Threads : pc[t] \notin {"idle", "done"} /\ op[t] = "read" /\ no[t] = k}
Touch(s, k) == <<k>> \o SelectSeq(s, LAMBDA y : y # k)

\* locals of a thread that runs no Page method
NoLocals == [offset |-> 0, len |-> 0, file_offset |-> 0, prev |-> 0, tmp |-> <<>>, ret |-> 0]

\* the PinGuard objects of a scope, and one that is not constructed
GuardIds == 1..NumGuards
NoGuard == [alive |-> FALSE, page |-> NoFrame]

\* the descriptors of SimpleBufferPool::fds_ (32 in the source)
FdIds == 0..(NumFds - 1)

\* ------------------------------------------------------------------ Init
\* page_no_info_.begin()->first, ->second: the entry with the smallest page size
FirstKey(cfg) == CHOOSE s \in DOMAIN cfg : \A r \in DOMAIN cfg : s <= r
CtorPageSize(cfg) == IF DOMAIN cfg = {} THEN 0 ELSE FirstKey(cfg)
CtorCapacity(cfg) == IF DOMAIN cfg = {} THEN 0 ELSE cfg[FirstKey(cfg)]

\* a configuration of one page size
SingleSize(s, c) == [r \in {s} |-> c]

\* no server runs: the pool is driven directly through read_page / write_page
NoServer ==
    /\ g_program_shutdown = [u \in Units |-> FALSE]
    /\ server_socket = [u \in Units |-> 0 - 1]
    /\ listener = "none"
    /\ main_pc = "none"
    /\ client_socket = [t \in Threads |-> "none"]
    /\ inbox = [t \in Threads |-> <<>>]
    /\ sent = [t \in Threads |-> <<>>]
    /\ heard = [t \in Threads |-> <<>>]
    /\ sigint = FALSE

\* LRUBufferPool::LRUBufferPool(file_name, cfg) on one of the initial files
PoolInit(cfg) ==
    /\ fd_ = TRUE
    /\ page_no_info_ = cfg
    /\ capacity_ = CtorCapacity(cfg)
    /\ page_size_ = CtorPageSize(cfg)
    /\ page_table_ = [k \in PageIds |-> NoFrame]
    /\ lru_list_ = <<>>
    /\ latch_ = NoThread
    /\ hit_count_ = 0
    /\ miss_count_ = 0
    /\ frames = [f \in FrameIds |-> NullPage]
    /\ file \in InitialFiles
    /\ pc = [t \in Threads |-> "idle"]
    /\ op = [t \in Threads |-> "read"]
    /\ no = [t \in Threads |-> 0]
    /\ page_size = [t \in Threads |-> page_size_]
    /\ buf = [t \in Threads |-> <<>>]
    /\ page = [t \in Threads |-> NoFrame]
    /\ idx = [t \in Threads |-> 0]
    /\ it = 0
    /\ victim = NoPage
    /\ tmp = <<>>
    /\ rc = TRUE
    /\ file0 = file
    /\ calls = 0
    /\ lastWrite = [k \in PageIds |-> <<>>]
    /\ everWritten = [k \in PageIds |-> FALSE]
    /\ expect = [t \in Threads |-> <<>>]
    /\ overlap = [t \in Threads |-> FALSE]
    /\ recency = <<>>
    /\ skipped = {}
    /\ evicted = {}
    /\ completed = 0
    /\ start_offset = 0
    /\ short_read = {}
    /\ local = [t \in Threads |-> NoLocals]
    /\ held = 0
    /\ guards = [g \in GuardIds |-> NoGuard]
    /\ fds_ = [d \in FdIds |-> 0]
    /\ t_idx = [t \in Threads |-> t - 1]
    /\ thread_count = NumThreads

\* a pool of the configured page size and a capacity of at least one page
Init ==
    /\ \E c \in Capacities : PoolInit(SingleSize(PageSize, c))
    /\ NoServer

\* ------------------------------------------------------------------ client calls
\* a worker calls read_page or write_page with the configured page size
Call(t, budget) ==
    /\ fd_
    /\ pc[t] \in {"idle", "done"}
    /\ calls < budget
    /\ \E o \in {"read", "write"}, k \in PageIds :
         \E b \in (IF o = "write" THEN WriteBufs(page_size_) ELSE {ReadBuf(page_size_)}) :
            /\ op' = [op EXCEPT ![t] = o]
            /\ no' = [no EXCEPT ![t] = k]
            /\ page_size' = [page_size EXCEPT ![t] = page_size_]
            /\ buf' = [buf EXCEPT ![t] = b]
            /\ everWritten' = [everWritten EXCEPT ![k] = @ \/ o = "write"]
            /\ expect' = [u \in Threads |->
                            IF u = t
                            THEN (IF o = "read" /\ WritersOf(k) = {} THEN lastWrite[k] ELSE <<>>)
                            ELSE IF o = "write" /\ u \in ReadersOf(k) THEN <<>> ELSE expect[u]]
            /\ overlap' = [u \in Threads |->
                            IF u = t THEN o = "write" /\ WritersOf(k) # {}
                            ELSE IF o = "write" /\ u \in WritersOf(k) THEN TRUE ELSE overlap[u]]
    /\ pc' = [pc EXCEPT ![t] = "GetPage"]
    /\ calls' = calls + 1
    /\ UNCHANGED <<poolVars, frames, file, page, idx, evictVars, file0, lastWrite,
                   recency, skipped, evicted>>
    /\ UNCHANGED <<completed, extVars>>

\* ------------------------------------------------------------------ GetPage
\* faulty variant of MoveToFront: a hit leaves the list as it is
MoveToFront_NoMove(l, k) == l

\* faulty variant of MoveToFront: the page is pushed without being removed first
MoveToFront_NoRemove(l, k) == PushFront(l, k)

\* MoveToFront: lru_list_.remove(no); lru_list_.push_front(no)
MoveToFront(l, k) == PushFront(Remove(l, k), k)

\* faulty variant of GetPageHit: the hit is not counted
GetPageHit_NoCount(t) ==
    /\ pc[t] = "GetPage"
    /\ latch_ = NoThread
    /\ page_table_[no[t]] # NoFrame
    /\ lru_list_' = MoveToFront(lru_list_, no[t])
    /\ page' = [page EXCEPT ![t] = page_table_[no[t]]]
    /\ pc' = [pc EXCEPT ![t] = "PinGuard"]
    /\ recency' = Touch(recency, no[t])
    /\ evicted' = {}
    /\ UNCHANGED <<fd_, capacity_, page_size_, page_table_, latch_, hit_count_, miss_count_,
                   frames, file, op, no, page_size, buf, idx, evictVars,
                   file0, calls, lastWrite, everWritten, expect, overlap, skipped>>
    /\ UNCHANGED <<completed, extVars>>

\* faulty variant of GetPageHit: the mutex is still held when GetPage returns
GetPageHit_KeepsMutex(t) ==
    /\ pc[t] = "GetPage"
    /\ latch_ = NoThread
    /\ page_table_[no[t]] # NoFrame
    /\ latch_' = t
    /\ hit_count_' = hit_count_ + 1
    /\ lru_list_' = MoveToFront(lru_list_, no[t])
    /\ page' = [page EXCEPT ![t] = page_table_[no[t]]]
    /\ pc' = [pc EXCEPT ![t] = "PinGuard"]
    /\ recency' = Touch(recency, no[t])
    /\ evicted' = {}
    /\ UNCHANGED <<fd_, capacity_, page_size_, page_table_, miss_count_,
                   frames, file, op, no, page_size, buf, idx, evictVars,
                   file0, calls, lastWrite, everWritten, expect, overlap, skipped>>
    /\ UNCHANGED <<completed, extVars>>

\* faulty variant of GetPageHit: the hit is counted as a miss as well
GetPageHit_CountsMiss(t) ==
    /\ pc[t] = "GetPage"
    /\ latch_ = NoThread
    /\ page_table_[no[t]] # NoFrame
    /\ hit_count_' = hit_count_ + 1
    /\ miss_count_' = miss_count_ + 1
    /\ lru_list_' = MoveToFront(lru_list_, no[t])
    /\ page' = [page EXCEPT ![t] = page_table_[no[t]]]
    /\ pc' = [pc EXCEPT ![t] = "PinGuard"]
    /\ recency' = Touch(recency, no[t])
    /\ evicted' = {}
    /\ UNCHANGED <<fd_, capacity_, page_size_, page_table_, latch_,
                   frames, file, op, no, page_size, buf, idx, evictVars,
                   file0, calls, lastWrite, everWritten, expect, overlap, skipped>>
    /\ UNCHANGED <<completed, extVars>>

\* GetPage, hit: count it, move the page to the front, hand back the frame
GetPageHit(t) ==
    /\ pc[t] = "GetPage"
    /\ latch_ = NoThread
    /\ page_table_[no[t]] # NoFrame
    /\ hit_count_' = hit_count_ + 1
    /\ lru_list_' = MoveToFront(lru_list_, no[t])
    /\ page' = [page EXCEPT ![t] = page_table_[no[t]]]
    /\ pc' = [pc EXCEPT ![t] = "PinGuard"]
    /\ recency' = Touch(recency, no[t])
    /\ evicted' = {}
    /\ UNCHANGED <<fd_, capacity_, page_size_, page_table_, latch_, miss_count_,
                   frames, file, op, no, page_size, buf, idx, evictVars,
                   file0, calls, lastWrite, everWritten, expect, overlap, skipped>>
    /\ UNCHANGED <<completed, extVars>>

\* GetPage, miss: take the mutex, count the miss, enter EvictIfNeeded
GetPageMiss(t) ==
    /\ pc[t] = "GetPage"
    /\ latch_ = NoThread
    /\ page_table_[no[t]] = NoFrame
    /\ latch_' = t
    /\ miss_count_' = miss_count_ + 1
    /\ IF Size < capacity_
       THEN /\ pc' = [pc EXCEPT ![t] = "LoadPageFromDisk"]
            /\ it' = 0
       ELSE /\ pc' = [pc EXCEPT ![t] = "EvictIfNeeded"]
            /\ it' = Len(lru_list_)
    /\ skipped' = {}
    /\ evicted' = {}
    /\ UNCHANGED <<fd_, capacity_, page_size_, page_table_, lru_list_, hit_count_,
                   frames, file, op, no, page_size, buf, page, idx, victim, tmp, rc,
                   file0, calls, lastWrite, everWritten, expect, overlap, recency>>
    /\ UNCHANGED <<completed, extVars>>

\* EvictIfNeeded: one iteration of the walk from the back of lru_list_
EvictWalk(t) ==
    /\ pc[t] = "EvictIfNeeded"
    /\ IF it = 0
       THEN \* every resident frame was pinned: warn and return
            /\ pc' = [pc EXCEPT ![t] = "LoadPageFromDisk"]
            /\ UNCHANGED <<it, victim, skipped>>
       ELSE IF frames[page_table_[lru_list_[it]]].pin_count = 0
       THEN /\ victim' = lru_list_[it]
            /\ pc' = [pc EXCEPT ![t] = "FlushPage"]
            /\ UNCHANGED <<it, skipped>>
       ELSE /\ it' = it - 1
            /\ skipped' = skipped \cup {lru_list_[it]}
            /\ UNCHANGED <<pc, victim>>
    /\ UNCHANGED <<poolVars, frames, file, op, no, page_size, buf, page, idx, tmp, rc,
                   file0, calls, lastWrite, everWritten, expect, overlap, recency, evicted>>
    /\ UNCHANGED <<completed, extVars>>

\* faulty variant of FlushPage: the victim is never written back
FlushPage_NoFlush(t) ==
    /\ pc[t] = "FlushPage"
    /\ rc' = TRUE
    /\ pc' = [pc EXCEPT ![t] = "erase"]
    /\ UNCHANGED <<poolVars, frames, file, op, no, page_size, buf, page, idx, it,
                   victim, tmp, ghostVars>>
    /\ UNCHANGED extVars

\* FlushPage: a frame that is not dirty needs no flush
FlushPage(t) ==
    /\ pc[t] = "FlushPage"
    /\ IF ~frames[page_table_[victim]].dirty
       THEN /\ rc' = TRUE
            /\ pc' = [pc EXCEPT ![t] = "erase"]
       ELSE /\ rc' = rc
            /\ pc' = [pc EXCEPT ![t] = "flush_to_fd"]
    /\ UNCHANGED <<poolVars, frames, file, op, no, page_size, buf, page, idx, it,
                   victim, tmp, ghostVars>>
    /\ UNCHANGED extVars

\* faulty variant of FlushCopy: the shared latch is still held when the copy is done
FlushCopy_KeepsLatch(t) ==
    /\ pc[t] = "flush_to_fd"
    /\ LET f == frames[page_table_[victim]] IN
       /\ ~f.writer
       /\ IF ~f.loaded
          THEN /\ rc' = FALSE
               /\ tmp' = tmp
               /\ frames' = frames
               /\ pc' = [pc EXCEPT ![t] = "erase"]
          ELSE IF ~f.dirty
          THEN /\ rc' = TRUE
               /\ tmp' = tmp
               /\ frames' = frames
               /\ pc' = [pc EXCEPT ![t] = "erase"]
          ELSE /\ rc' = rc
               /\ tmp' = f.data
               /\ frames' = [frames EXCEPT ![page_table_[victim]].readers = @ + 1]
               /\ pc' = [pc EXCEPT ![t] = "pwrite"]
    /\ UNCHANGED <<poolVars, file, op, no, page_size, buf, page, idx, it,
                   victim, ghostVars>>
    /\ UNCHANGED extVars

\* flush_to_fd, first half: under the shared latch, copy the buffer to a scratch
FlushCopy(t) ==
    /\ pc[t] = "flush_to_fd"
    /\ LET f == frames[page_table_[victim]] IN
       /\ ~f.writer
       /\ IF ~f.loaded
          THEN /\ rc' = FALSE
               /\ tmp' = tmp
               /\ pc' = [pc EXCEPT ![t] = "erase"]
          ELSE IF ~f.dirty
          THEN /\ rc' = TRUE
               /\ tmp' = tmp
               /\ pc' = [pc EXCEPT ![t] = "erase"]
          ELSE /\ rc' = rc
               /\ tmp' = f.data
               /\ pc' = [pc EXCEPT ![t] = "pwrite"]
    /\ UNCHANGED <<poolVars, frames, file, op, no, page_size, buf, page, idx, it,
                   victim, ghostVars>>
    /\ UNCHANGED extVars

\* flush_to_fd, second half: write the scratch at id * page_size_, clear dirty
FlushWrite(t) ==
    /\ pc[t] = "pwrite"
    /\ LET f == page_table_[victim] IN
       /\ file' \in FlushLoop(file, FlushOffset(frames[f]), tmp, 0)
       /\ frames' = [frames EXCEPT ![f].dirty = FALSE]
    /\ rc' = TRUE
    /\ tmp' = <<>>
    /\ pc' = [pc EXCEPT ![t] = "erase"]
    /\ UNCHANGED <<poolVars, op, no, page_size, buf, page, idx, it, victim, ghostVars>>
    /\ UNCHANGED extVars

\* EvictIfNeeded: erase the victim from page_table_ and lru_list_ (rc is not looked at)
Erase(t) ==
    /\ pc[t] = "erase"
    /\ page_table_' = [page_table_ EXCEPT ![victim] = NoFrame]
    /\ lru_list_' = RemoveAt(lru_list_, it)
    /\ frames' = Reclaim(frames, page_table_', page, NoPage)
    /\ victim' = NoPage
    /\ it' = 0
    /\ rc' = TRUE
    /\ pc' = [pc EXCEPT ![t] = "LoadPageFromDisk"]
    /\ recency' = Remove(recency, victim)
    /\ evicted' = evicted \cup {victim}
    /\ skipped' = {}
    /\ UNCHANGED <<fd_, capacity_, page_size_, latch_, hit_count_, miss_count_, file,
                   op, no, page_size, buf, page, idx, tmp,
                   file0, calls, lastWrite, everWritten, expect, overlap>>
    /\ UNCHANGED <<completed, extVars>>

\* faulty variant of LoadFromFd: a pread that returns 0 (end of file) counts as an error
LoadFromFd_EofIsError(pg, f, off) ==
    IF off + pg.size > Len(f)
    THEN {[pg EXCEPT !.data = Zeros(pg.size)]}
    ELSE {[pg EXCEPT !.data = d, !.loaded = TRUE, !.dirty = FALSE] :
             d \in LoadLoop(f, off, pg.data, 0)}

\* Page::load_from_fd when every pread succeeds: the frame it leaves
LoadFromFd(pg, f, off) ==
    {[pg EXCEPT !.data = d, !.loaded = TRUE, !.dirty = FALSE] : d \in LoadLoop(f, off, pg.data, 0)}

\* LoadPageFromDisk and the rest of GetPage: new frame, load at no * page_size,
\* insert into page_table_, push to the front of lru_list_, release the mutex
LoadPageFromDisk(t) ==
    /\ pc[t] = "LoadPageFromDisk"
    /\ \E pg \in LoadFromFd(NewPage(no[t], page_size[t]), file, LoadOffset(no[t], page_size[t])) :
          frames' = [frames EXCEPT ![FreeFrame] = pg]
    /\ page_table_' = [page_table_ EXCEPT ![no[t]] = FreeFrame]
    /\ lru_list_' = PushFront(lru_list_, no[t])
    /\ page' = [page EXCEPT ![t] = FreeFrame]
    /\ latch_' = NoThread
    /\ pc' = [pc EXCEPT ![t] = "PinGuard"]
    /\ recency' = Touch(recency, no[t])
    /\ skipped' = {}
    /\ UNCHANGED <<fd_, capacity_, page_size_, hit_count_, miss_count_, file,
                   op, no, page_size, buf, idx, evictVars,
                   file0, calls, lastWrite, everWritten, expect, overlap, evicted>>
    /\ UNCHANGED <<completed, extVars>>

\* ------------------------------------------------------------------ PinGuard, ReadAt, WriteAt
\* PinGuard::PinGuard: page->pin()
PinGuard(t) ==
    /\ pc[t] = "PinGuard"
    /\ frames' = [frames EXCEPT ![page[t]].pin_count = @ + 1]
    /\ pc' = [pc EXCEPT ![t] = IF op[t] = "read" THEN "ReadAt" ELSE "WriteAt"]
    /\ UNCHANGED <<poolVars, file, op, no, page_size, buf, page, idx, evictVars, ghostVars>>
    /\ UNCHANGED extVars

\* ReadAt(0, buf, page_size): take the shared latch; 0 bytes from an unloaded frame
ReadAt(t) ==
    /\ pc[t] = "ReadAt"
    /\ LET f == frames[page[t]] IN
       IF 0 >= f.size
       THEN /\ pc' = [pc EXCEPT ![t] = "unpin"]
            /\ UNCHANGED <<frames, idx>>
       ELSE /\ ~f.writer
            /\ IF ~f.loaded \/ CopyLen(f.size, 0, page_size[t]) = 0
               THEN /\ pc' = [pc EXCEPT ![t] = "unpin"]
                    /\ UNCHANGED <<frames, idx>>
               ELSE /\ frames' = [frames EXCEPT ![page[t]].readers = @ + 1]
                    /\ idx' = [idx EXCEPT ![t] = 0]
                    /\ pc' = [pc EXCEPT ![t] = "ReadCopy"]
    /\ UNCHANGED <<poolVars, file, op, no, page_size, buf, page, evictVars, ghostVars>>
    /\ UNCHANGED extVars

\* faulty variant of ReadCopy: the shared latch is not released after the last byte
ReadCopy_KeepsLatch(t) ==
    /\ pc[t] = "ReadCopy"
    /\ LET f == frames[page[t]]
           n == CopyLen(f.size, 0, page_size[t]) IN
       /\ buf' = [buf EXCEPT ![t][idx[t] + 1] = f.data[idx[t] + 1]]
       /\ idx' = [idx EXCEPT ![t] = IF @ + 1 = n THEN 0 ELSE @ + 1]
       /\ pc' = [pc EXCEPT ![t] = IF idx[t] + 1 = n THEN "unpin" ELSE @]
    /\ UNCHANGED <<poolVars, frames, file, op, no, page_size, page, evictVars, ghostVars>>
    /\ UNCHANGED extVars

\* the memcpy of ReadAt, one byte; the latch is released after the last byte
ReadCopy(t) ==
    /\ pc[t] = "ReadCopy"
    /\ LET f == frames[page[t]]
           n == CopyLen(f.size, 0, page_size[t]) IN
       /\ buf' = [buf EXCEPT ![t][idx[t] + 1] = f.data[idx[t] + 1]]
       /\ idx' = [idx EXCEPT ![t] = IF @ + 1 = n THEN 0 ELSE @ + 1]
       /\ IF idx[t] + 1 = n
          THEN /\ frames' = [frames EXCEPT ![page[t]].readers = @ - 1]
               /\ pc' = [pc EXCEPT ![t] = "unpin"]
          ELSE UNCHANGED <<frames, pc>>
    /\ UNCHANGED <<poolVars, file, op, no, page_size, page, evictVars, ghostVars>>
    /\ UNCHANGED extVars

\* faulty variant of WriteAt: the latch is taken without waiting for the readers to leave
WriteAt_IgnoresReaders(t) ==
    /\ pc[t] = "WriteAt"
    /\ ~frames[page[t]].writer
    /\ idx' = [idx EXCEPT ![t] = 0]
    /\ frames' = [frames EXCEPT ![page[t]].loaded = TRUE, ![page[t]].writer = TRUE]
    /\ pc' = [pc EXCEPT ![t] = "WriteCopy"]
    /\ UNCHANGED <<poolVars, file, op, no, page_size, buf, page, evictVars, ghostVars>>
    /\ UNCHANGED extVars

\* WriteAt(0, buf, page_size): take the exclusive latch, set loaded
WriteAt(t) ==
    /\ pc[t] = "WriteAt"
    /\ LET f == frames[page[t]] IN
       IF 0 >= f.size
       THEN /\ pc' = [pc EXCEPT ![t] = "unpin"]
            /\ UNCHANGED <<frames, idx>>
       ELSE /\ ~f.writer
            /\ f.readers = 0
            /\ idx' = [idx EXCEPT ![t] = 0]
            /\ IF CopyLen(f.size, 0, page_size[t]) = 0
               THEN /\ frames' = [frames EXCEPT ![page[t]].loaded = TRUE,
                                                ![page[t]].dirty = TRUE]
                    /\ pc' = [pc EXCEPT ![t] = "unpin"]
               ELSE /\ frames' = [frames EXCEPT ![page[t]].loaded = TRUE,
                                                ![page[t]].writer = TRUE]
                    /\ pc' = [pc EXCEPT ![t] = "WriteCopy"]
    /\ UNCHANGED <<poolVars, file, op, no, page_size, buf, page, evictVars, ghostVars>>
    /\ UNCHANGED extVars

\* faulty variant of WriteCopy: the exclusive latch is not released after the last byte
WriteCopy_KeepsLatch(t) ==
    /\ pc[t] = "WriteCopy"
    /\ LET f == frames[page[t]]
           n == CopyLen(f.size, 0, page_size[t])
           last == idx[t] + 1 = n IN
       /\ frames' = [frames EXCEPT ![page[t]].data[idx[t] + 1] = buf[t][idx[t] + 1],
                                   ![page[t]].dirty = IF last THEN TRUE ELSE @]
       /\ idx' = [idx EXCEPT ![t] = IF last THEN 0 ELSE @ + 1]
       /\ pc' = [pc EXCEPT ![t] = IF last THEN "unpin" ELSE @]
    /\ UNCHANGED <<poolVars, file, op, no, page_size, buf, page, evictVars, ghostVars>>
    /\ UNCHANGED extVars

\* the memcpy of WriteAt, one byte; after the last byte set dirty, release the latch
WriteCopy(t) ==
    /\ pc[t] = "WriteCopy"
    /\ LET f == frames[page[t]]
           n == CopyLen(f.size, 0, page_size[t])
           last == idx[t] + 1 = n IN
       /\ frames' = [frames EXCEPT ![page[t]].data[idx[t] + 1] = buf[t][idx[t] + 1],
                                   ![page[t]].dirty = IF last THEN TRUE ELSE @,
                                   ![page[t]].writer = ~last]
       /\ idx' = [idx EXCEPT ![t] = IF last THEN 0 ELSE @ + 1]
       /\ pc' = [pc EXCEPT ![t] = IF last THEN "unpin" ELSE @]
    /\ UNCHANGED <<poolVars, file, op, no, page_size, buf, page, evictVars, ghostVars>>
    /\ UNCHANGED extVars

\* PinGuard::~PinGuard: page->unpin(); the call returns and drops its handle
Unpin(t) ==
    /\ pc[t] = "unpin"
    /\ LET fr == [frames EXCEPT ![page[t]].pin_count = UnpinValue(@)] IN
       /\ page' = [page EXCEPT ![t] = NoFrame]
       /\ frames' = Reclaim(fr, page_table_, page', victim)
    /\ pc' = [pc EXCEPT ![t] = "done"]
    /\ lastWrite' = IF op[t] = "write"
                    THEN [lastWrite EXCEPT ![no[t]] =
                            IF overlap[t] \/ WritersOf(no[t]) # {t} THEN <<>> ELSE buf[t]]
                    ELSE lastWrite
    /\ buf' = [buf EXCEPT ![t] = IF op[t] = "write" THEN <<>> ELSE @]
    /\ UNCHANGED <<poolVars, file, op, no, page_size, idx, evictVars,
                   file0, calls, everWritten, expect, overlap, recency, skipped, evicted>>
    /\ completed' = completed + 1
    /\ UNCHANGED extVars

\* ------------------------------------------------------------------ shutdown
\* FlushPage + flush_to_fd of one frame with nobody else running: the file it leaves
FlushFrame(f, pg) ==
    IF ~pg.dirty \/ ~pg.loaded THEN {f}
    ELSE FlushLoop(f, FlushOffset(pg), pg.data, 0)

\* FlushAll: every frame of page_table_, in the order the unordered_map yields them
RECURSIVE FlushAll(_, _)
FlushAll(f, pages) ==
    IF pages = {} THEN {f}
    ELSE UNION {UNION {FlushAll(g, pages \ {k}) : g \in FlushFrame(f, frames[page_table_[k]])}
                : k \in pages}

\* ~LRUBufferPool, after listen_forever joined the workers: FlushAll, close(fd_);
\* the pool object, its frames and the workers' locals are gone afterwards
Destroy ==
    /\ fd_
    /\ \A t \in Threads : pc[t] \in {"idle", "done"}
    /\ latch_ = NoThread
    /\ file' \in FlushAll(file, Resident)
    /\ fd_' = FALSE
    /\ page_table_' = [k \in PageIds |-> NoFrame]
    /\ lru_list_' = <<>>
    /\ frames' = [f \in FrameIds |-> NullPage]
    /\ hit_count_' = 0
    /\ miss_count_' = 0
    /\ pc' = [t \in Threads |-> "idle"]
    /\ op' = [t \in Threads |-> "read"]
    /\ no' = [t \in Threads |-> 0]
    /\ buf' = [t \in Threads |-> <<>>]
    /\ expect' = [t \in Threads |-> <<>>]
    /\ recency' = <<>>
    /\ evicted' = {}
    /\ UNCHANGED <<capacity_, page_size_, latch_, page_size, page, idx, evictVars,
                   file0, calls, lastWrite, everWritten, overlap, skipped>>
    /\ completed' = 0
    /\ UNCHANGED extVars

\* LRUBufferPool::LRUBufferPool on the file a destroyed pool left
Construct ==
    /\ ~fd_
    /\ fd_' = TRUE
    /\ UNCHANGED <<capacity_, page_size_, page_table_, lru_list_, latch_, hit_count_,
                   miss_count_, frames, file, threadVars, evictVars, ghostVars>>
    /\ UNCHANGED extVars

\* ------------------------------------------------------------------ specifications
Step(t) ==
    \/ GetPageHit(t)
    \/ GetPageMiss(t)
    \/ EvictWalk(t)
    \/ FlushPage(t)
    \/ FlushCopy(t)
    \/ FlushWrite(t)
    \/ Erase(t)
    \/ LoadPageFromDisk(t)
    \/ PinGuard(t)
    \/ ReadAt(t)
    \/ ReadCopy(t)
    \/ WriteAt(t)
    \/ WriteCopy(t)
    \/ Unpin(t)

\* any number of worker threads share the pool
Next == (\E t \in Threads : Call(t, MaxOps) \/ Step(t)) \/ Destroy \/ Construct
Spec == Init /\ [][Next]_vars

\* flush_to_fd when a pwrite fails for good: some bytes may be out, dirty stays set
FlushWriteFail(t) ==
    /\ pc[t] = "pwrite"
    /\ \E done \in 0..(Len(tmp) - 1) :
          file' \in FlushLoop(file, FlushOffset(frames[page_table_[victim]]),
                              SubSeq(tmp, 1, done), 0)
    /\ rc' = FALSE
    /\ tmp' = <<>>
    /\ pc' = [pc EXCEPT ![t] = "erase"]
    /\ UNCHANGED <<poolVars, frames, op, no, page_size, buf, page, idx, it, victim,
                   ghostVars>>
    /\ UNCHANGED extVars

\* LoadPageFromDisk when a pread fails for good: load_from_fd returns false, the
\* buffer is zeroed, and the frame (loaded = false) is inserted all the same
LoadFail(t) ==
    /\ pc[t] = "LoadPageFromDisk"
    /\ frames' = [frames EXCEPT ![FreeFrame] = NewPage(no[t], page_size[t])]
    /\ page_table_' = [page_table_ EXCEPT ![no[t]] = FreeFrame]
    /\ lru_list_' = PushFront(lru_list_, no[t])
    /\ page' = [page EXCEPT ![t] = FreeFrame]
    /\ latch_' = NoThread
    /\ pc' = [pc EXCEPT ![t] = "PinGuard"]
    /\ recency' = Touch(recency, no[t])
    /\ skipped' = {}
    /\ UNCHANGED <<fd_, capacity_, page_size_, hit_count_, miss_count_, file,
                   op, no, page_size, buf, idx, evictVars,
                   file0, calls, lastWrite, everWritten, expect, overlap, evicted>>
    /\ UNCHANGED <<completed, extVars>>

\* one client thread only
NextSeq == Call(1, MaxSeqOps) \/ Step(1) \/ Destroy \/ Construct
SpecSeq == Init /\ [][NextSeq]_vars

\* one client thread, and disk calls that may fail for good
NextIO == NextSeq \/ FlushWriteFail(1) \/ LoadFail(1)
SpecIO == Init /\ [][NextIO]_vars

\* ------------------------------------------------------------------ any configuration
\* std::map<size_t, size_t> with no entry
EmptyConfig == [r \in {} |-> 0]

\* the configurations a pool is constructed with: none, one size with a count that
\* may be 0, a size of 0, and two sizes of which the first has count 0
LruConfigs ==
    {EmptyConfig}
      \cup {SingleSize(s, c) : s \in {0, PageSize}, c \in 0..MaxCapacity}
      \cup {[r \in {PageSize - 1, PageSize} |-> IF r = PageSize THEN 1 ELSE 0]}

\* the page sizes a request may carry
ReqSizes == (PageSize - 1)..(PageSize + 1)

\* a caller passes any page number and any page size, as a request header does
CallSized(t, budget) ==
    /\ fd_
    /\ pc[t] \in {"idle", "done"}
    /\ calls < budget
    /\ \E o \in {"read", "write"}, k \in PageIds, s \in ReqSizes :
            /\ op' = [op EXCEPT ![t] = o]
            /\ no' = [no EXCEPT ![t] = k]
            /\ page_size' = [page_size EXCEPT ![t] = s]
            /\ buf' = [buf EXCEPT ![t] = IF o = "write" THEN Uniform(s, 1) ELSE ReadBuf(s)]
            /\ everWritten' = [everWritten EXCEPT ![k] = @ \/ o = "write"]
    /\ pc' = [pc EXCEPT ![t] = "GetPage"]
    /\ calls' = calls + 1
    /\ UNCHANGED <<poolVars, frames, file, page, idx, evictVars, file0, lastWrite,
                   expect, overlap, recency, skipped, evicted, completed, extVars>>

\* a pool constructed with any configuration, used by one thread
InitCfg ==
    /\ \E cfg \in LruConfigs : PoolInit(cfg)
    /\ NoServer

NextCfg == CallSized(1, MaxCfgOps) \/ Step(1) \/ Destroy \/ Construct
SpecCfg == InitCfg /\ [][NextCfg]_vars

\* ------------------------------------------------------------------ SimpleBufferPool
OutOfRange == 0 - 1               \* static_cast<size_t>(-1)
SimpleSizes == 1..PageSize        \* page sizes a configuration may list
SimpleCounts == 0..MaxCapacity    \* page counts a configuration may list
SimplePages == 0..(2 * MaxCapacity)

\* the configurations: any set of sizes, each with any count
SimpleConfigs == UNION {[K -> SimpleCounts] : K \in SUBSET SimpleSizes}

\* faulty variant of ScanRanges: the pages of a skipped range are not taken off n
RECURSIVE ScanRanges_NoSubtract(_, _, _, _)
ScanRanges_NoSubtract(cfg, K, boundary, n) ==
    IF K = {} THEN OutOfRange
    ELSE LET psize == CHOOSE s \in K : \A r \in K : s <= r
             pcount == cfg[psize]
         IN  IF n >= pcount
             THEN ScanRanges_NoSubtract(cfg, K \ {psize}, boundary + psize * pcount, n)
             ELSE boundary + (n * psize)

\* the loop of page_start_offset over the ranges K still to visit, smallest size first
RECURSIVE ScanRanges(_, _, _, _)
ScanRanges(cfg, K, boundary, n) ==
    IF K = {} THEN OutOfRange
    ELSE LET psize == CHOOSE s \in K : \A r \in K : s <= r
             pcount == cfg[psize]
         IN  IF n >= pcount
             THEN ScanRanges(cfg, K \ {psize}, boundary + psize * pcount, n - pcount)
             ELSE boundary + (n * psize)

\* SimpleBufferPool::page_start_offset
page_start_offset(cfg, n) == ScanRanges(cfg, DOMAIN cfg, 0, n)

\* read(fd, buf, page_size) at offset off: the bytes up to the end of the file
ReadBytes(f, off, b, n) ==
    [i \in 1..Len(b) |-> IF i <= n /\ off + i <= Len(f) THEN f[off + i] ELSE b[i]]

\* SimpleBufferPool::read_page(no, page_size, buf, t): nothing for a page out of
\* range; else lseek and one read; a short read fails the assert, which aborts
\* the process in a build with assertions and does nothing in one without
SimpleReadPage(t) ==
    /\ pc[t] \in {"idle", "done"}
    /\ calls < MaxSimpleOps
    /\ \E k \in SimplePages, s \in ReqSizes :
         LET off == page_start_offset(page_no_info_, k) IN
         /\ op' = [op EXCEPT ![t] = "read"]
         /\ no' = [no EXCEPT ![t] = k]
         /\ page_size' = [page_size EXCEPT ![t] = s]
         /\ start_offset' = off
         /\ IF off = OutOfRange
            THEN /\ buf' = [buf EXCEPT ![t] = ReadBuf(s)]
                 /\ pc' = [pc EXCEPT ![t] = "done"]
            ELSE /\ buf' = [buf EXCEPT ![t] = ReadBytes(file, off, ReadBuf(s), s)]
                 /\ IF off + s <= Len(file)
                    THEN pc' = [pc EXCEPT ![t] = "done"]
                    ELSE \E end \in {"done", "abort"} : pc' = [pc EXCEPT ![t] = end]
    /\ calls' = calls + 1
    /\ UNCHANGED <<poolVars, frames, file, page, idx, evictVars, file0, lastWrite,
                   everWritten, expect, overlap, recency, skipped, evicted, completed,
                   page_no_info_, simpleVars, unitVars, srvVars>>

\* SimpleBufferPool::write_page(no, page_size, buf, t): nothing for a page out of
\* range; else lseek and one write, which extends the file when it ends past it
SimpleWritePage(t) ==
    /\ pc[t] \in {"idle", "done"}
    /\ calls < MaxSimpleOps
    /\ \E k \in SimplePages, s \in ReqSizes : \E b \in WriteBufs(s) :
         LET off == page_start_offset(page_no_info_, k) IN
         /\ op' = [op EXCEPT ![t] = "write"]
         /\ no' = [no EXCEPT ![t] = k]
         /\ page_size' = [page_size EXCEPT ![t] = s]
         /\ buf' = [buf EXCEPT ![t] = b]
         /\ start_offset' = off
         /\ file' = IF off = OutOfRange THEN file ELSE WriteBytes(file, off, b, 0, s)
    /\ pc' = [pc EXCEPT ![t] = "done"]
    /\ calls' = calls + 1
    /\ UNCHANGED <<poolVars, frames, page, idx, evictVars, file0, lastWrite,
                   everWritten, expect, overlap, recency, skipped, evicted, completed,
                   page_no_info_, simpleVars, unitVars, srvVars>>

\* SimpleBufferPool::SimpleBufferPool on an existing file, with any configuration;
\* the members of LRUBufferPool are not used
InitSimple ==
    /\ \E cfg \in SimpleConfigs : PoolInit(cfg)
    /\ NoServer

NextSimple == SimpleReadPage(1) \/ SimpleWritePage(1)
SpecSimple == InitSimple /\ [][NextSimple]_vars

\* ------------------------------------------------------------------ server
SockFd == 3                       \* the descriptor socket() returns in create_socket
MsgTypes == {"GET", "SET", "INVALID_TYPE"}
SrvPages == {0, 1}                \* page numbers the clients ask for
SrvSizes == {0, PageSize}         \* page sizes the clients put in a header
Headers == [msg_type : MsgTypes, page_no : SrvPages, page_size : SrvSizes]

\* requests the clients of the workers in S sent so far
RECURSIVE Requested(_)
Requested(S) ==
    IF S = {} THEN 0
    ELSE LET t == CHOOSE x \in S : TRUE
         IN  Len(heard[t]) + Len(inbox[t]) + Requested(S \ {t})

\* example.cpp main, after signal() and the pool's construction: Server::create_socket
CreateSocket ==
    /\ main_pc = "create_socket"
    /\ server_socket' = [server_socket EXCEPT !["server.cpp"] = SockFd]
    /\ listener' = "bound"
    /\ main_pc' = "listen"
    /\ UNCHANGED <<poolVars, frames, file, threadVars, evictVars, ghostVars, page_no_info_, simpleVars,
                   start_offset, unitVars, g_program_shutdown, client_socket, inbox, sent, heard, sigint>>

\* listen_forever: listen(server_socket, 1000); return if it fails
Listen ==
    /\ main_pc = "listen"
    /\ IF listener = "bound"
       THEN listener' = "listening" /\ main_pc' = "while"
       ELSE listener' = listener /\ main_pc' = "returned"
    /\ UNCHANGED <<poolVars, frames, file, threadVars, evictVars, ghostVars, page_no_info_, simpleVars,
                   start_offset, unitVars, g_program_shutdown, server_socket, client_socket, inbox,
                   sent, heard, sigint>>

\* listen_forever: while (!g_program_shutdown), the flag of server.cpp
AcceptLoop ==
    /\ main_pc = "while"
    /\ main_pc' = IF g_program_shutdown["server.cpp"] THEN "shutdown_workers" ELSE "accept"
    /\ UNCHANGED <<poolVars, frames, file, threadVars, evictVars, ghostVars, page_no_info_, simpleVars,
                   start_offset, unitVars, g_program_shutdown, server_socket, listener, client_socket,
                   inbox, sent, heard, sigint>>

\* listen_forever: accept() returns a connection; a worker thread is started on it
Accept ==
    /\ main_pc = "accept"
    /\ listener = "listening"
    /\ \E t \in Threads :
         /\ client_socket[t] = "none"
         /\ \A u \in Threads : u < t => client_socket[u] # "none"
         /\ client_socket' = [client_socket EXCEPT ![t] = "open"]
         /\ pc' = [pc EXCEPT ![t] = "while"]
    /\ main_pc' = "while"
    /\ UNCHANGED <<poolVars, frames, file, op, no, page_size, buf, page, idx, evictVars,
                   ghostVars, page_no_info_, simpleVars, unitVars, start_offset, g_program_shutdown, server_socket,
                   listener, inbox, sent, heard, sigint>>

\* listen_forever: accept() returns -1 (the socket was shut down, or an error): break
AcceptFail ==
    /\ main_pc = "accept"
    /\ main_pc' = "shutdown_workers"
    /\ UNCHANGED <<poolVars, frames, file, threadVars, evictVars, ghostVars, page_no_info_, simpleVars,
                   start_offset, unitVars, g_program_shutdown, server_socket, listener, client_socket,
                   inbox, sent, heard, sigint>>

\* listen_forever: shutdown(client_socket, SHUT_RDWR) for every worker
ShutdownWorkers ==
    /\ main_pc = "shutdown_workers"
    /\ client_socket' = [t \in Threads |->
                            IF client_socket[t] \in {"open", "hangup"} THEN "shut"
                            ELSE client_socket[t]]
    /\ main_pc' = "join"
    /\ UNCHANGED <<poolVars, frames, file, threadVars, evictVars, ghostVars, page_no_info_, simpleVars,
                   start_offset, unitVars, g_program_shutdown, server_socket, listener, inbox, sent,
                   heard, sigint>>

\* listen_forever: th.join() for every worker, unlink, return
JoinWorkers ==
    /\ main_pc = "join"
    /\ \A t \in Threads : pc[t] = "idle"
    /\ main_pc' = "returned"
    /\ UNCHANGED <<poolVars, frames, file, threadVars, evictVars, ghostVars, page_no_info_, simpleVars,
                   start_offset, unitVars, g_program_shutdown, server_socket, listener, client_socket,
                   inbox, sent, heard, sigint>>

\* example.cpp main after listen_forever returned: show_hit_rate, delete bp
DeleteBp ==
    /\ main_pc = "returned"
    /\ Destroy

\* example.cpp signal_handler: sets the flag of example.cpp, and shuts down the
\* socket example.cpp's server_socket names, if it names one
SignalHandler ==
    /\ main_pc # "none"
    /\ fd_
    /\ ~sigint
    /\ sigint' = TRUE
    /\ g_program_shutdown' = [g_program_shutdown EXCEPT !["example.cpp"] = TRUE]
    /\ listener' = IF /\ server_socket["example.cpp"] > 0
                      /\ server_socket["example.cpp"] = server_socket["server.cpp"]
                   THEN "shutdown" ELSE listener
    /\ UNCHANGED <<poolVars, frames, file, threadVars, evictVars, ghostVars, page_no_info_, simpleVars,
                   start_offset, unitVars, server_socket, main_pc, client_socket, inbox, sent, heard>>

\* a client writes one request (header, and page_size payload bytes after a SET header)
ClientSend(t) ==
    /\ client_socket[t] = "open"
    /\ Requested(Threads) < MaxSrvReqs
    /\ \E h \in Headers : inbox' = [inbox EXCEPT ![t] = Append(@, h)]
    /\ UNCHANGED <<poolVars, frames, file, threadVars, evictVars, ghostVars, page_no_info_, simpleVars,
                   start_offset, unitVars, g_program_shutdown, server_socket, listener, main_pc,
                   client_socket, sent, heard, sigint>>

\* a client closes its end of the connection
ClientClose(t) ==
    /\ client_socket[t] = "open"
    /\ client_socket' = [client_socket EXCEPT ![t] = "hangup"]
    /\ UNCHANGED <<poolVars, frames, file, threadVars, evictVars, ghostVars, page_no_info_, simpleVars,
                   start_offset, unitVars, g_program_shutdown, server_socket, listener, main_pc,
                   inbox, sent, heard, sigint>>

\* thread_handler: while (!g_program_shutdown), the flag of server.cpp; on exit
\* close(client_socket), show_hit_rate
ThreadLoop(t) ==
    /\ pc[t] = "while"
    /\ IF g_program_shutdown["server.cpp"]
       THEN /\ pc' = [pc EXCEPT ![t] = "idle"]
            /\ client_socket' = [client_socket EXCEPT ![t] = "closed"]
       ELSE /\ pc' = [pc EXCEPT ![t] = "read_loop"]
            /\ UNCHANGED client_socket
    /\ UNCHANGED <<poolVars, frames, file, op, no, page_size, buf, page, idx, evictVars,
                   ghostVars, page_no_info_, simpleVars, unitVars, start_offset, g_program_shutdown, server_socket,
                   listener, main_pc, inbox, sent, heard, sigint>>

\* thread_handler: read_loop of the header, then the switch up to the pool call.
\* read_loop returns its count argument, so 0 for a payload of 0 bytes, and the
\* SET case breaks out of the switch on a return value <= 0.
ReadHeader(t) ==
    /\ pc[t] = "read_loop"
    /\ IF inbox[t] = <<>>
       THEN \* read() returns 0 once the peer closed or the socket was shut down
            /\ client_socket[t] \in {"hangup", "shut"}
            /\ pc' = [pc EXCEPT ![t] = "idle"]
            /\ client_socket' = [client_socket EXCEPT ![t] = "closed"]
            /\ UNCHANGED <<op, no, page_size, buf, calls, inbox, heard>>
       ELSE LET header == Head(inbox[t]) IN
            /\ inbox' = [inbox EXCEPT ![t] = Tail(@)]
            /\ heard' = [heard EXCEPT ![t] = Append(@, header)]
            /\ UNCHANGED client_socket
            /\ IF header.msg_type = "SET" /\ header.page_size > 0
               THEN /\ op' = [op EXCEPT ![t] = "write"]
                    /\ no' = [no EXCEPT ![t] = header.page_no]
                    /\ page_size' = [page_size EXCEPT ![t] = header.page_size]
                    /\ buf' = [buf EXCEPT ![t] = Uniform(header.page_size, 1)]
                    /\ pc' = [pc EXCEPT ![t] = "GetPage"]
                    /\ calls' = calls + 1
               ELSE IF header.msg_type = "GET"
               THEN /\ op' = [op EXCEPT ![t] = "read"]
                    /\ no' = [no EXCEPT ![t] = header.page_no]
                    /\ page_size' = [page_size EXCEPT ![t] = header.page_size]
                    /\ buf' = [buf EXCEPT ![t] = ReadBuf(header.page_size)]
                    /\ pc' = [pc EXCEPT ![t] = "GetPage"]
                    /\ calls' = calls + 1
               ELSE /\ pc' = [pc EXCEPT ![t] = "while"]
                    /\ UNCHANGED <<op, no, page_size, buf, calls>>
    /\ UNCHANGED <<poolVars, frames, file, page, idx, evictVars, file0, lastWrite,
                   everWritten, expect, overlap, recency, skipped, evicted, completed,
                   page_no_info_, simpleVars, start_offset, unitVars, g_program_shutdown, server_socket, listener,
                   main_pc, sent, sigint>>

\* thread_handler after write_page / read_page returned: write_loop of the 4-byte
\* page_size, and after a GET of page_size bytes of the buffer; errors are ignored
Respond(t) ==
    /\ pc[t] = "done"
    /\ main_pc # "none"
    /\ sent' = [sent EXCEPT ![t] =
                  IF client_socket[t] # "open" THEN @
                  ELSE Append(@, <<page_size[t], IF op[t] = "read" THEN page_size[t] ELSE 0>>)]
    /\ buf' = [buf EXCEPT ![t] = <<>>]
    /\ pc' = [pc EXCEPT ![t] = "while"]
    /\ UNCHANGED <<poolVars, frames, file, op, no, page_size, page, idx, evictVars,
                   ghostVars, page_no_info_, simpleVars, unitVars, start_offset, g_program_shutdown, server_socket,
                   listener, main_pc, client_socket, inbox, heard, sigint>>

\* example.cpp main at the call of create_socket: signal handler installed, a pool
\* of one frame built on a new file
InitSrv ==
    /\ PoolInit(SingleSize(PageSize, 1))
    /\ file = <<>>
    /\ g_program_shutdown = [u \in Units |-> FALSE]
    /\ server_socket = [u \in Units |-> 0 - 1]
    /\ listener = "none"
    /\ main_pc = "create_socket"
    /\ client_socket = [t \in Threads |-> "none"]
    /\ inbox = [t \in Threads |-> <<>>]
    /\ sent = [t \in Threads |-> <<>>]
    /\ heard = [t \in Threads |-> <<>>]
    /\ sigint = FALSE

\* the server process: main thread, signal, clients and one worker per connection
NextSrv ==
    \/ CreateSocket \/ Listen \/ AcceptLoop \/ Accept \/ AcceptFail
    \/ ShutdownWorkers \/ JoinWorkers \/ DeleteBp \/ SignalHandler
    \/ \E t \in Threads :
          \/ ClientSend(t) \/ ClientClose(t)
          \/ ThreadLoop(t) \/ ReadHeader(t) \/ Respond(t)
          \/ Step(t)
SpecSrv == InitSrv /\ [][NextSrv]_vars

\* ------------------------------------------------------------------ Page::pin, Page::unpin
\* the history variables other than the call counter
histVars == <<file0, lastWrite, everWritten, expect, overlap, recency, skipped, evicted,
              completed>>

\* the frame slot of a Page that is used directly, not through the pool
ThePage == 1

\* std::make_shared<Page>(0, PageSize)
PageCtor ==
    /\ frames[ThePage] = NullPage
    /\ frames' = [frames EXCEPT ![ThePage] = NewPage(0, PageSize)]
    /\ UNCHANGED <<poolVars, file, threadVars, evictVars, ghostVars, extVars>>

\* Page::pin: one fetch_add
PagePin(t) ==
    /\ frames[ThePage] # NullPage
    /\ pc[t] = "idle"
    /\ calls < MaxPinOps
    /\ frames' = [frames EXCEPT ![ThePage].pin_count = @ + 1]
    /\ held' = held + 1
    /\ calls' = calls + 1
    /\ UNCHANGED <<poolVars, file, threadVars, evictVars, histVars, page_no_info_, simpleVars,
                   start_offset, srvVars, short_read, local, guards>>

\* Page::unpin, first half: prev = pin_count_.fetch_sub(1)
PageUnpinFetchSub(t) ==
    /\ frames[ThePage] # NullPage
    /\ pc[t] = "idle"
    /\ calls < MaxPinOps
    /\ local' = [local EXCEPT ![t].prev = frames[ThePage].pin_count]
    /\ frames' = [frames EXCEPT ![ThePage].pin_count = @ - 1]
    /\ held' = IF frames[ThePage].pin_count > 0 THEN held - 1 ELSE held
    /\ calls' = calls + 1
    /\ pc' = [pc EXCEPT ![t] = "fetch_sub"]
    /\ UNCHANGED <<poolVars, file, op, no, page_size, buf, page, idx, evictVars, histVars,
                   page_no_info_, simpleVars, start_offset, srvVars, short_read, guards>>

\* Page::unpin, second half: if (prev <= 0) { pin_count_.store(0); return 0; } return prev - 1
PageUnpinReturn(t) ==
    /\ pc[t] = "fetch_sub"
    /\ IF local[t].prev <= 0
       THEN /\ frames' = [frames EXCEPT ![ThePage].pin_count = 0]
            /\ local' = [local EXCEPT ![t].ret = 0]
       ELSE /\ local' = [local EXCEPT ![t].ret = local[t].prev - 1]
            /\ UNCHANGED frames
    /\ pc' = [pc EXCEPT ![t] = "idle"]
    /\ UNCHANGED <<poolVars, file, op, no, page_size, buf, page, idx, evictVars, ghostVars,
                   page_no_info_, simpleVars, start_offset, srvVars, short_read, held, guards>>

NextPin ==
    \/ PageCtor
    \/ \E t \in Threads : PagePin(t) \/ PageUnpinFetchSub(t) \/ PageUnpinReturn(t)
SpecPin == Init /\ [][NextPin]_vars

\* ------------------------------------------------------------------ Page::PinGuard
\* what a guard may be constructed from: a null handle or the Page
Handles == {NoFrame, ThePage}

\* PinGuard(std::shared_ptr<Page> p): pins p when it is not null
GuardCtor(g, p) ==
    /\ frames[ThePage] # NullPage
    /\ ~guards[g].alive
    /\ calls < MaxGuardOps
    /\ guards' = [guards EXCEPT ![g] = [alive |-> TRUE, page |-> p]]
    /\ frames' = IF p # NoFrame THEN [frames EXCEPT ![p].pin_count = @ + 1] ELSE frames
    /\ calls' = calls + 1
    /\ UNCHANGED <<poolVars, file, threadVars, evictVars, histVars, page_no_info_, simpleVars,
                   start_offset, srvVars, short_read, local, held>>

\* PinGuard(PinGuard &&) = default: the new guard takes the handle, the source is left null
GuardMoveCtor(g, h) ==
    /\ ~guards[g].alive
    /\ guards[h].alive
    /\ calls < MaxGuardOps
    /\ guards' = [guards EXCEPT ![g] = [alive |-> TRUE, page |-> guards[h].page],
                                ![h].page = NoFrame]
    /\ calls' = calls + 1
    /\ UNCHANGED <<poolVars, frames, file, threadVars, evictVars, histVars, page_no_info_, simpleVars,
                   start_offset, srvVars, short_read, local, held>>

\* PinGuard &operator=(PinGuard &&) = default: the member is move-assigned, the handle
\* the target held is dropped and nothing is unpinned
GuardMoveAssign(g, h) ==
    /\ g # h
    /\ guards[g].alive
    /\ guards[h].alive
    /\ calls < MaxGuardOps
    /\ guards' = [guards EXCEPT ![g].page = guards[h].page, ![h].page = NoFrame]
    /\ calls' = calls + 1
    /\ UNCHANGED <<poolVars, frames, file, threadVars, evictVars, histVars, page_no_info_, simpleVars,
                   start_offset, srvVars, short_read, local, held>>

\* ~PinGuard: unpins the page when the guard holds one
GuardDtor(g) ==
    /\ guards[g].alive
    /\ calls < MaxGuardOps
    /\ guards' = [guards EXCEPT ![g] = NoGuard]
    /\ frames' = IF guards[g].page # NoFrame
                 THEN [frames EXCEPT ![guards[g].page].pin_count = UnpinValue(@)]
                 ELSE frames
    /\ calls' = calls + 1
    /\ UNCHANGED <<poolVars, file, threadVars, evictVars, histVars, page_no_info_, simpleVars,
                   start_offset, srvVars, short_read, local, held>>

NextGuard ==
    \/ PageCtor
    \/ \E g \in GuardIds :
          \/ \E p \in Handles : GuardCtor(g, p)
          \/ \E h \in GuardIds : GuardMoveCtor(g, h) \/ GuardMoveAssign(g, h)
          \/ GuardDtor(g)
SpecGuard == Init /\ [][NextGuard]_vars

\* ------------------------------------------------------------------ Page used directly
\* the offsets and lengths a caller passes to ReadAt / WriteAt, the file offsets it
\* passes to load_from_fd / flush_to_fd
Offsets == 0..(PageSize + 1)
Lens == 0..(PageSize + 1)
FileOffsets == {0, PageSize}

\* the memcpy of ReadAt / WriteAt: n bytes of src laid over dst from offset on
CopyAt(dst, offset, src, n) ==
    [i \in 1..Len(dst) |-> IF i > offset /\ i <= offset + n THEN src[i - offset] ELSE dst[i]]

\* Page::ReadAt(offset, out, len), out being a buffer of len bytes
PageReadAt(t, offset, len) ==
    /\ frames[ThePage] # NullPage
    /\ pc[t] = "idle"
    /\ calls < MaxPageOps
    /\ LET pg == frames[ThePage]
           out == ReadBuf(len)
           to_read == CopyLen(pg.size, offset, len) IN
       IF offset >= pg.size \/ ~pg.loaded
       THEN /\ buf' = [buf EXCEPT ![t] = out]
            /\ local' = [local EXCEPT ![t].offset = offset, ![t].len = len, ![t].ret = 0]
       ELSE /\ ~pg.writer
            /\ buf' = [buf EXCEPT ![t] =
                          CopyAt(out, 0, SubSeq(pg.data, offset + 1, offset + to_read), to_read)]
            /\ local' = [local EXCEPT ![t].offset = offset, ![t].len = len,
                                      ![t].ret = to_read]
    /\ op' = [op EXCEPT ![t] = "ReadAt"]
    /\ calls' = calls + 1
    /\ UNCHANGED <<poolVars, frames, file, pc, no, page_size, page, idx, evictVars, histVars,
                   page_no_info_, simpleVars, start_offset, srvVars, short_read, held, guards>>

\* Page::WriteAt(offset, buf, len), buf being a buffer of len bytes
PageWriteAt(t, offset, b) ==
    /\ frames[ThePage] # NullPage
    /\ pc[t] = "idle"
    /\ calls < MaxPageOps
    /\ LET pg == frames[ThePage]
           to_write == CopyLen(pg.size, offset, Len(b)) IN
       IF offset >= pg.size
       THEN /\ local' = [local EXCEPT ![t].offset = offset, ![t].len = Len(b), ![t].ret = 0]
            /\ UNCHANGED frames
       ELSE /\ ~pg.writer /\ pg.readers = 0
            /\ frames' = [frames EXCEPT ![ThePage].loaded = TRUE,
                                        ![ThePage].data = CopyAt(pg.data, offset, b, to_write),
                                        ![ThePage].dirty = TRUE]
            /\ local' = [local EXCEPT ![t].offset = offset, ![t].len = Len(b),
                                      ![t].ret = to_write]
    /\ buf' = [buf EXCEPT ![t] = b]
    /\ op' = [op EXCEPT ![t] = "WriteAt"]
    /\ calls' = calls + 1
    /\ UNCHANGED <<poolVars, file, pc, no, page_size, page, idx, evictVars, histVars,
                   page_no_info_, simpleVars, start_offset, srvVars, short_read, held, guards>>

\* Page::load_from_fd(fd, file_offset) when every pread succeeds
PageLoadFromFd(t, file_offset) ==
    /\ frames[ThePage] # NullPage
    /\ pc[t] = "idle"
    /\ calls < MaxPageOps
    /\ ~frames[ThePage].writer /\ frames[ThePage].readers = 0
    /\ \E pg \in LoadFromFd(frames[ThePage], file, file_offset) :
          frames' = [frames EXCEPT ![ThePage] = pg]
    /\ local' = [local EXCEPT ![t].file_offset = file_offset, ![t].ret = TRUE]
    /\ op' = [op EXCEPT ![t] = "load_from_fd"]
    /\ calls' = calls + 1
    /\ UNCHANGED <<poolVars, file, pc, no, page_size, buf, page, idx, evictVars, histVars,
                   page_no_info_, simpleVars, start_offset, srvVars, short_read, held, guards>>

\* Page::flush_to_fd(fd, file_offset), up to readlock.unlock(): the two early returns,
\* or the copy of the buffer to tmp
PageFlushCopy(t, file_offset) ==
    /\ frames[ThePage] # NullPage
    /\ pc[t] = "idle"
    /\ calls < MaxPageOps
    /\ ~frames[ThePage].writer
    /\ IF ~frames[ThePage].loaded
       THEN /\ local' = [local EXCEPT ![t].file_offset = file_offset, ![t].ret = FALSE]
            /\ UNCHANGED pc
       ELSE IF ~frames[ThePage].dirty
       THEN /\ local' = [local EXCEPT ![t].file_offset = file_offset, ![t].ret = TRUE]
            /\ UNCHANGED pc
       ELSE /\ local' = [local EXCEPT ![t].file_offset = file_offset,
                                      ![t].tmp = frames[ThePage].data]
            /\ pc' = [pc EXCEPT ![t] = "tmp"]
    /\ op' = [op EXCEPT ![t] = "flush_to_fd"]
    /\ calls' = calls + 1
    /\ UNCHANGED <<poolVars, frames, file, no, page_size, buf, page, idx, evictVars,
                   histVars, page_no_info_, simpleVars, start_offset, srvVars, short_read, held, guards>>

\* flush_to_fd, the pwrite loop when every pwrite succeeds, then dirty_ = false
PageFlushWrite(t) ==
    /\ pc[t] = "tmp"
    /\ file' \in FlushLoop(file, local[t].file_offset, local[t].tmp, 0)
    /\ frames' = [frames EXCEPT ![ThePage].dirty = FALSE]
    /\ local' = [local EXCEPT ![t].tmp = <<>>, ![t].ret = TRUE]
    /\ pc' = [pc EXCEPT ![t] = "idle"]
    /\ UNCHANGED <<poolVars, op, no, page_size, buf, page, idx, evictVars, ghostVars,
                   page_no_info_, simpleVars, start_offset, srvVars, short_read, held, guards>>

\* faulty variant of PageFlushWriteFail: dirty is cleared though the write failed
PageFlushWriteFail_ClearsDirty(t) ==
    /\ pc[t] = "tmp"
    /\ \E done \in 0..(Len(local[t].tmp) - 1) :
          file' \in FlushLoop(file, local[t].file_offset, SubSeq(local[t].tmp, 1, done), 0)
    /\ frames' = [frames EXCEPT ![ThePage].dirty = FALSE]
    /\ local' = [local EXCEPT ![t].tmp = <<>>, ![t].ret = FALSE]
    /\ pc' = [pc EXCEPT ![t] = "idle"]
    /\ UNCHANGED <<poolVars, op, no, page_size, buf, page, idx, evictVars, ghostVars,
                   page_no_info_, simpleVars, start_offset, srvVars, short_read, held, guards>>

\* flush_to_fd, the pwrite loop when a pwrite fails with an error other than EINTR:
\* some bytes may be out, false is returned before dirty_ is touched
PageFlushWriteFail(t) ==
    /\ pc[t] = "tmp"
    /\ \E done \in 0..(Len(local[t].tmp) - 1) :
          file' \in FlushLoop(file, local[t].file_offset, SubSeq(local[t].tmp, 1, done), 0)
    /\ local' = [local EXCEPT ![t].tmp = <<>>, ![t].ret = FALSE]
    /\ pc' = [pc EXCEPT ![t] = "idle"]
    /\ UNCHANGED <<poolVars, frames, op, no, page_size, buf, page, idx, evictVars, ghostVars,
                   page_no_info_, simpleVars, start_offset, srvVars, short_read, held, guards>>

\* one thread calls the methods of the Page one after the other
NextPage ==
    \/ PageCtor
    \/ \E offset \in Offsets, len \in Lens : PageReadAt(1, offset, len)
    \/ \E offset \in Offsets, len \in Lens : \E b \in WriteBufs(len) : PageWriteAt(1, offset, b)
    \/ \E file_offset \in FileOffsets : PageLoadFromFd(1, file_offset)
    \/ \E file_offset \in FileOffsets : PageFlushCopy(1, file_offset)
    \/ PageFlushWrite(1)
    \/ PageFlushWriteFail(1)
SpecPage == Init /\ [][NextPage]_vars

\* ------------------------------------------------------------------ server, short payload
\* thread_handler, case SET, when read_loop of the payload returns <= 0: the stream
\* ended inside the payload (eof), or a read() failed with an error other than EINTR
\* and the connection stays usable. The break leaves the switch only, so the worker
\* goes back to the test of the while loop.
PayloadShort(t, eof) ==
    /\ pc[t] = "read_loop"
    /\ inbox[t] # <<>>
    /\ Head(inbox[t]).msg_type = "SET"
    /\ Head(inbox[t]).page_size > 0
    /\ heard' = [heard EXCEPT ![t] = Append(@, Head(inbox[t]))]
    /\ inbox' = [inbox EXCEPT ![t] = Tail(@)]
    /\ IF eof
       THEN /\ Len(inbox[t]) = 1
            /\ client_socket[t] \in {"open", "hangup"}
            /\ client_socket' = [client_socket EXCEPT ![t] = "hangup"]
       ELSE UNCHANGED client_socket
    /\ short_read' = short_read \cup {t}
    /\ pc' = [pc EXCEPT ![t] = "while"]
    /\ UNCHANGED <<poolVars, frames, file, op, no, page_size, buf, page, idx, evictVars,
                   ghostVars, page_no_info_, simpleVars, start_offset, g_program_shutdown, server_socket,
                   listener, main_pc, sent, sigint, local, held, guards>>

\* the server when the read of a payload may come up short
NextSrvIO ==
    \/ NextSrv
    \/ \E t \in Threads, eof \in BOOLEAN : PayloadShort(t, eof)
SpecSrvIO == InitSrv /\ [][NextSrvIO]_vars

\* ------------------------------------------------------------------ fair scheduling
\* a pool of one frame on an empty file, used by the worker threads
InitLive ==
    /\ PoolInit(SingleSize(PageSize, 1))
    /\ file = <<>>
    /\ NoServer

NextLive == \E t \in Threads : Call(t, MaxLiveOps) \/ Step(t)

\* the scheduler runs every thread that stays able to take a step; a disk call that
\* is interrupted (EINTR) is retried without a change of state, and is not interrupted
\* for ever
Fairness == \A t \in Threads : WF_vars(Step(t))

SpecLive == InitLive /\ [][NextLive]_vars /\ Fairness

\* ------------------------------------------------------------------ SimpleBufferPool, several workers
\* The workers of the server call read_page / write_page of one SimpleBufferPool
\* with their thread_index; no lock is taken, so lseek and the read or write that
\* follows it are separate steps. Each open() of the constructor gives a
\* descriptor with a file position of its own, which lseek sets and read / write
\* advance.

\* fds_[t_idx % fds_.size()]
Fd(t) == t_idx[t] % NumFds

\* a failed assert has aborted the process
Running == \A u \in Threads : pc[u] # "abort"

\* listen_forever: the connection of worker t has ended and the next connection
\* is accepted; its worker gets thread_count++ as thread_index
AcceptWorker(t) ==
    /\ Running
    /\ pc[t] \in {"idle", "done"}
    /\ thread_count < MaxWorkers
    /\ t_idx' = [t_idx EXCEPT ![t] = thread_count]
    /\ thread_count' = thread_count + 1
    /\ pc' = [pc EXCEPT ![t] = "idle"]
    /\ UNCHANGED <<poolVars, frames, file, op, no, page_size, buf, page, idx,
                   evictVars, ghostVars, page_no_info_, start_offset, srvVars,
                   unitVars, fds_>>

\* read_page up to the choice of the descriptor: page_start_offset, and the
\* return for a page out of range
SharedReadPage(t) ==
    /\ Running
    /\ pc[t] \in {"idle", "done"}
    /\ calls < MaxSharedOps
    /\ \E k \in SimplePages, s \in ReqSizes :
         LET off == page_start_offset(page_no_info_, k) IN
         /\ op' = [op EXCEPT ![t] = "read"]
         /\ no' = [no EXCEPT ![t] = k]
         /\ page_size' = [page_size EXCEPT ![t] = s]
         /\ buf' = [buf EXCEPT ![t] = ReadBuf(s)]
         /\ local' = [local EXCEPT ![t].offset = off]
         /\ pc' = [pc EXCEPT ![t] = IF off = OutOfRange THEN "done" ELSE "lseek"]
    /\ calls' = calls + 1
    /\ UNCHANGED <<poolVars, frames, file, page, idx, evictVars, file0, lastWrite,
                   everWritten, expect, overlap, recency, skipped, evicted, completed,
                   page_no_info_, start_offset, srvVars, short_read, held, guards,
                   simpleVars>>

\* write_page up to the choice of the descriptor
SharedWritePage(t) ==
    /\ Running
    /\ pc[t] \in {"idle", "done"}
    /\ calls < MaxSharedOps
    /\ \E k \in SimplePages, s \in ReqSizes : \E b \in WriteBufs(s) :
         LET off == page_start_offset(page_no_info_, k) IN
         /\ op' = [op EXCEPT ![t] = "write"]
         /\ no' = [no EXCEPT ![t] = k]
         /\ page_size' = [page_size EXCEPT ![t] = s]
         /\ buf' = [buf EXCEPT ![t] = b]
         /\ local' = [local EXCEPT ![t].offset = off]
         /\ pc' = [pc EXCEPT ![t] = IF off = OutOfRange THEN "done" ELSE "lseek"]
    /\ calls' = calls + 1
    /\ UNCHANGED <<poolVars, frames, file, page, idx, evictVars, file0, lastWrite,
                   everWritten, expect, overlap, recency, skipped, evicted, completed,
                   page_no_info_, start_offset, srvVars, short_read, held, guards,
                   simpleVars>>

\* lseek(fd, offset, SEEK_SET): the position of the descriptor becomes offset
Lseek(t) ==
    /\ Running
    /\ pc[t] = "lseek"
    /\ fds_' = [fds_ EXCEPT ![Fd(t)] = local[t].offset]
    /\ pc' = [pc EXCEPT ![t] = IF op[t] = "read" THEN "sys_read" ELSE "sys_write"]
    /\ UNCHANGED <<poolVars, frames, file, op, no, page_size, buf, page, idx,
                   evictVars, ghostVars, page_no_info_, start_offset, srvVars,
                   unitVars, t_idx, thread_count>>

\* ::read(fd, buf, page_size): the bytes at the position of the descriptor, which
\* moves past them; a short read fails the assert, which aborts the process in a
\* build with assertions and does nothing in one without
SysRead(t) ==
    /\ Running
    /\ pc[t] = "sys_read"
    /\ LET pos == fds_[Fd(t)]
           r == Min(page_size[t], Max(Len(file) - pos, 0))
       IN  /\ buf' = [buf EXCEPT ![t] = ReadBytes(file, pos, buf[t], page_size[t])]
           /\ fds_' = [fds_ EXCEPT ![Fd(t)] = pos + r]
           /\ IF r = page_size[t]
              THEN pc' = [pc EXCEPT ![t] = "done"]
              ELSE \E end \in {"done", "abort"} : pc' = [pc EXCEPT ![t] = end]
    /\ UNCHANGED <<poolVars, frames, file, op, no, page_size, page, idx,
                   evictVars, ghostVars, page_no_info_, start_offset, srvVars,
                   unitVars, t_idx, thread_count>>

\* ::write(fd, buf, page_size): the bytes go to the position of the descriptor,
\* which moves past them; the file grows when they end past its end
SysWrite(t) ==
    /\ Running
    /\ pc[t] = "sys_write"
    /\ LET pos == fds_[Fd(t)]
       IN  /\ file' = WriteBytes(file, pos, buf[t], 0, page_size[t])
           /\ fds_' = [fds_ EXCEPT ![Fd(t)] = pos + page_size[t]]
    /\ pc' = [pc EXCEPT ![t] = "done"]
    /\ UNCHANGED <<poolVars, frames, op, no, page_size, buf, page, idx,
                   evictVars, ghostVars, page_no_info_, start_offset, srvVars,
                   unitVars, t_idx, thread_count>>

\* SimpleBufferPool::SimpleBufferPool on an existing file, with any configuration;
\* the server has accepted NumThreads connections
InitShared ==
    /\ \E cfg \in SimpleConfigs : PoolInit(cfg)
    /\ NoServer

NextShared ==
    \E t \in Threads :
        \/ AcceptWorker(t)
        \/ SharedReadPage(t)
        \/ SharedWritePage(t)
        \/ Lseek(t)
        \/ SysRead(t)
        \/ SysWrite(t)

SpecShared == InitShared /\ [][NextShared]_vars

\* ================================================================== properties
ReadDone(t) == pc[t] = "done" /\ op[t] = "read"
InGetPage(t) == pc[t] \in {"EvictIfNeeded", "FlushPage", "flush_to_fd", "pwrite", "erase",
                           "LoadPageFromDisk"}
Mapped(f) == \E k \in PageIds : page_table_[k] = f

\* C1: in a single-threaded run with the configured page size and no I/O error, a
\* completed read_page(k) holds exactly the bytes of the most recent write_page(k),
\* also when the frame of k was flushed, evicted and reloaded in between.
C1_ReadAfterWrite ==
    (ReadDone(1) /\ expect[1] # <<>>) => buf[1] = expect[1]

\* C1 witness: with the largest capacity, capacity + 1 pages went through the pool
\* without a hit, and the read that reloaded an evicted page returned its bytes
C1_Witness ==
    /\ ReadDone(1) /\ expect[1] # <<>> /\ buf[1] = expect[1]
    /\ capacity_ = MaxCapacity
    /\ hit_count_ = 0
    /\ miss_count_ = capacity_ + 2

\* C2: with several threads, a read_page(k) that starts after a write_page(k, b)
\* returned, with no other write_page(k) before the read ends, returns b, whatever
\* misses on other pages evict the frame of k meanwhile.
C2_CompletedWriteNotLost ==
    \A t \in Threads : (ReadDone(t) /\ expect[t] # <<>>) => buf[t] = expect[t]

\* C3: when a read_page or write_page has just completed, page_table_ holds at most
\* capacity_ frames.
C3_SizeWithinCapacity ==
    (\E t \in Threads : pc[t] = "done") => Size <= capacity_

\* C4: a frame whose pin_count is > 0 is in page_table_.
C4_PinnedIsResident ==
    \A f \in FrameIds : frames[f].pin_count > 0 => Mapped(f)

\* C5: a miss that finds the index full and every resident frame pinned inserts
\* nothing: page_table_ and lru_list_ are as they were when its GetPage ends.
C5_AllPinnedMissFails ==
    [][\A t \in Threads :
          (pc[t] = "LoadPageFromDisk" /\ Size >= capacity_ /\ evicted = {})
             => (page_table_' = page_table_ /\ lru_list_' = lru_list_)]_vars

\* C6: when the flush of the chosen victim failed, the eviction is aborted: the
\* victim stays in page_table_ and lru_list_, and stays dirty.
C6_FailedFlushAbortsEviction ==
    [][\A t \in Threads :
          (pc[t] = "erase" /\ ~rc)
             => /\ page_table_'[victim] = page_table_[victim]
                /\ lru_list_' = lru_list_
                /\ frames'[page_table_[victim]].dirty]_vars

\* the least recently accessed resident page the eviction walk did not find pinned
LruUnpinned ==
    LET cand == SelectSeq(recency, LAMBDA k : k \notin skipped)
    IN  IF cand = <<>> THEN NoPage ELSE cand[Len(cand)]

\* C7: lru_list_ is the resident pages ordered by last access (insertion or hit),
\* most recent first; a hit or an insertion puts the page first; the victim of a miss
\* on a full index is the least recently accessed page among those the walk did not
\* find pinned; the eviction erases that page and no other, and the pages found
\* pinned stay resident; a miss evicts nothing only when the index was not full or
\* the walk found every resident page pinned.
C7_LruVictim ==
    [][/\ lru_list_' = recency'
       /\ \A t \in Threads :
            /\ (pc[t] \in {"GetPage", "LoadPageFromDisk"} /\ pc'[t] = "PinGuard")
                 => (Head(lru_list_') = no[t] /\ Resident' = Resident \cup {no[t]})
            /\ (pc[t] = "EvictIfNeeded" /\ pc'[t] = "FlushPage")
                 => (victim' = LruUnpinned /\ frames[page_table_[victim']].pin_count = 0)
            /\ (pc[t] = "erase" /\ pc'[t] = "LoadPageFromDisk")
                 => /\ Resident' = Resident \ {victim}
                    /\ evicted = {}
                    /\ skipped \subseteq Resident'
            /\ (pc[t] = "LoadPageFromDisk" /\ pc'[t] = "PinGuard")
                 => /\ Cardinality(evicted) <= 1
                    /\ evicted = {} => (Size < capacity_ \/ skipped = Resident)]_vars

\* C7 witness: the walk passed a pinned page and chose a more recent, unpinned one
C7_Witness ==
    \E t \in Threads :
        /\ pc[t] = "erase"
        /\ skipped # {}
        /\ victim = LruUnpinned
        /\ victim # lru_list_[Len(lru_list_)]

\* C8: a completed read_page(k) holds one whole version of the page: the bytes of
\* one write_page (every written buffer is byte-uniform) or the page as the file
\* had it before any write, never a mixture of two.
C8_ReadIsOneVersion ==
    \A t \in Threads :
        ReadDone(t) =>
            buf[t] \in WriteBufs(page_size_) \cup {FilePage(file0, no[t], page_size_)}

\* C8 witness: a reader is in the middle of its copy while a writer of the same
\* frame, holding other bytes, waits for the latch
C8_Witness ==
    \E t, u \in Threads :
        /\ pc[t] = "ReadCopy" /\ idx[t] > 0
        /\ pc[u] = "WriteAt" /\ page[u] = page[t]
        /\ buf[u] # frames[page[t]].data

\* C9: after the destructor ran (FlushAll, close) with no I/O error, the file
\* holds, for every page, the bytes of its last completed write_page.
C9_FileHoldsLastWrites ==
    ~fd_ => \A k \in PageIds :
                lastWrite[k] # <<>> => FilePage(file, k, page_size_) = lastWrite[k]

\* C10 as stated: a completed read_page of a page never written that lies wholly
\* or partly past the end of the file holds page_size zero bytes.
C10_ReadPastEofIsZeros ==
    \A t \in Threads :
        (ReadDone(t) /\ ~everWritten[no[t]] /\ (no[t] + 1) * page_size_ > Len(file0))
            => buf[t] = Zeros(page_size_)

\* C10 amended: a completed read_page of a page never written holds the bytes the
\* file has for the page followed by zero bytes for the part past the end of the
\* file (all zero when the page lies wholly past it); the frame is loaded, not dirty.
C10_ReadPastEofZeroFilled ==
    /\ \A t \in Threads :
         (ReadDone(t) /\ ~everWritten[no[t]])
            => buf[t] = FilePage(file0, no[t], page_size_)
    /\ \A k \in Resident :
         ~everWritten[k] =>
            /\ frames[page_table_[k]].loaded
            /\ ~frames[page_table_[k]].dirty
            /\ frames[page_table_[k]].data = FilePage(file0, k, page_size_)

\* C10 witness: reads of a page wholly past the end of the file and of a page the
\* file ends in the middle of
C10_Witness ==
    \E t \in Threads :
        /\ ReadDone(t) /\ ~everWritten[no[t]]
        /\ no[t] * page_size_ < Len(file0)
        /\ (no[t] + 1) * page_size_ > Len(file0)
        /\ buf[t] = FilePage(file0, no[t], page_size_)
        /\ buf[t] # Zeros(page_size_)

\* calls that passed the lookup of GetPage and have not returned yet
InFlight == Cardinality({t \in Threads : pc[t] \notin {"idle", "done", "GetPage"}})

\* C11: every read_page / write_page increments exactly one counter, at its lookup
\* in GetPage: hit_count_ when the page is in page_table_, miss_count_ otherwise;
\* nothing else changes a counter and none decreases while the pool lives; so
\* hit_count_ + miss_count_ is the number of calls that returned plus those past
\* their lookup, and equals N once N calls returned and none is running.
C11_CountersCountCalls ==
    [][/\ hit_count_' + miss_count_' = completed' + InFlight'
       /\ fd_' => (hit_count_' >= hit_count_ /\ miss_count_' >= miss_count_)
       /\ \A t \in Threads :
            (pc[t] = "GetPage" /\ pc'[t] # "GetPage")
               => IF page_table_[no[t]] # NoFrame
                  THEN hit_count_' = hit_count_ + 1 /\ miss_count_' = miss_count_
                  ELSE miss_count_' = miss_count_ + 1 /\ hit_count_' = hit_count_
       /\ (fd_' /\ \A t \in Threads : pc[t] = "GetPage" => pc'[t] = "GetPage")
            => (hit_count_' = hit_count_ /\ miss_count_' = miss_count_)]_vars

\* C11 witness: every call of the run returned, two threads took part, hits and
\* misses both happened, and the counters add up to the number of calls
C11_Witness ==
    /\ completed = MaxOps
    /\ \A t \in Threads : pc[t] = "done"
    /\ hit_count_ >= 1 /\ miss_count_ >= 1
    /\ hit_count_ + miss_count_ = MaxOps

\* C12: once signal_handler has run on SIGINT, the flag the acceptor and worker
\* loops test is set and the acceptor is not left blocked in accept() on a listening
\* socket, so that the loops stop; and the pool is flushed and its file closed only
\* after listen_forever returned with every worker joined.
C12_SigintStopsServer ==
    /\ sigint => /\ g_program_shutdown["server.cpp"]
                 /\ ~(main_pc = "accept" /\ listener = "listening")
    /\ (main_pc # "none" /\ ~fd_) => (main_pc = "returned" /\ \A t \in Threads : pc[t] = "idle")

\* the response thread_handler owes to a header, as <<page_size, payload bytes>>
Answered(h) == h.msg_type \in {"GET", "SET"}
Response(h) == <<h.page_size, IF h.msg_type = "GET" THEN h.page_size ELSE 0>>
Responses(hs) ==
    LET v == SelectSeq(hs, Answered) IN [i \in 1..Len(v) |-> Response(v[i])]

\* C13: whenever a worker is back at the top of its loop with its connection open,
\* it has sent exactly one response per GET or SET header it read, in request order:
\* the page_size alone for a SET, the page_size and page_size payload bytes for a
\* GET, for every page_size including 0; other headers got no response.
C13_OneResponsePerRequest ==
    \A t \in Threads :
        (pc[t] \in {"while", "read_loop"} /\ client_socket[t] = "open")
            => sent[t] = Responses(heard[t])

\* C14: a pool that was constructed and serves read_page / write_page has a
\* configuration with a first entry, a capacity > 0 and a page size > 0 (the
\* construction from an empty map, or from a first entry with count or size 0, fails).
C14_ServingPoolIsConfigured ==
    (fd_ /\ \E t \in Threads : pc[t] = "done")
        => (DOMAIN page_no_info_ # {} /\ capacity_ > 0 /\ page_size_ > 0)

\* the bytes of the file a frame stands for, by the offset it was loaded from
LoadRange(pg) == {LoadOffset(pg.id, pg.size) + i : i \in 1..pg.size}

\* C20: every resident frame is flushed to the offset it was loaded from,
\* page id * size, and the file ranges of two resident pages do not overlap, also
\* when a request carries a page size other than the configured one.
C20_OneOffsetPerPage ==
    \A k \in Resident :
        LET pg == frames[page_table_[k]] IN
        /\ FlushOffset(pg) = LoadOffset(pg.id, pg.size)
        /\ \A j \in Resident \ {k} : LoadRange(pg) \cap LoadRange(frames[page_table_[j]]) = {}

\* pages and bytes of the ranges of configuration cfg with a size in K
RECURSIVE PagesIn(_, _)
PagesIn(cfg, K) ==
    IF K = {} THEN 0
    ELSE LET s == CHOOSE x \in K : TRUE IN cfg[s] + PagesIn(cfg, K \ {s})
RECURSIVE BytesIn(_, _)
BytesIn(cfg, K) ==
    IF K = {} THEN 0
    ELSE LET s == CHOOSE x \in K : TRUE IN s * cfg[s] + BytesIn(cfg, K \ {s})
Below(cfg, r) == {s \in DOMAIN cfg : s < r}

\* the range page n lies in: the smallest size whose range ends after page n
RangeOf(cfg, n) ==
    CHOOSE r \in DOMAIN cfg :
        /\ PagesIn(cfg, Below(cfg, r)) <= n
        /\ n < PagesIn(cfg, Below(cfg, r)) + cfg[r]

\* C15: a call of the uncached pool computes the start offset of page no as the
\* bytes of all ranges wholly before the page, taken by ascending size, plus the
\* page's index within its range times that range's size; for a page number at or
\* past the total page count it computes the out-of-range marker, does no file
\* I/O and leaves the caller's buffer and the file as they were.
C15_PageStartOffset ==
    [][\A t \in Threads :
          (calls' = calls + 1 /\ pc'[t] # "idle") =>
             LET cfg == page_no_info_
                 n == no'[t]
             IN  IF n < PagesIn(cfg, DOMAIN cfg)
                 THEN LET r == RangeOf(cfg, n) IN
                      /\ start_offset' = BytesIn(cfg, Below(cfg, r))
                                            + (n - PagesIn(cfg, Below(cfg, r))) * r
                      /\ start_offset' # OutOfRange
                 ELSE /\ start_offset' = OutOfRange
                      /\ file' = file
                      /\ pc'[t] = "done"
                      /\ op'[t] = "read" => buf'[t] = ReadBuf(page_size'[t])]_vars

\* C15 witness: with two ranges, a page that is not the first of the second range
C15_Witness ==
    /\ Cardinality(DOMAIN page_no_info_) = 2
    /\ pc[1] = "done"
    /\ calls > 0
    /\ no[1] > PagesIn(page_no_info_, Below(page_no_info_, PageSize))
    /\ no[1] < PagesIn(page_no_info_, DOMAIN page_no_info_)
    /\ PagesIn(page_no_info_, Below(page_no_info_, PageSize)) > 0
    /\ start_offset = BytesIn(page_no_info_, Below(page_no_info_, PageSize))
                        + (no[1] - PagesIn(page_no_info_, Below(page_no_info_, PageSize))) * PageSize

\* a call holds the frame handle GetPage returned and has not finished its copy
HoldsHandle(t) == pc[t] \in {"PinGuard", "ReadAt", "ReadCopy", "WriteAt", "WriteCopy"}

\* C16: from the return of GetPage to the end of ReadAt / WriteAt, no eviction walk
\* reads pin_count = 0 for the frame the call holds, and every byte is copied out of
\* or into the frame page_table_ maps the page to.
C16_PinnedWhileInUse ==
    [][/\ \A u \in Threads :
            (pc[u] = "EvictIfNeeded" /\ pc'[u] = "FlushPage")
               => ~\E t \in Threads : HoldsHandle(t) /\ page[t] = page_table_[victim']
       /\ \A t \in Threads :
            (pc[t] \in {"ReadCopy", "WriteCopy"} /\ <<pc'[t], idx'[t]>> # <<pc[t], idx[t]>>)
               => page_table_[no[t]] = page[t]]_vars

\* C17: whenever the pool mutex is free, lru_list_ holds exactly the page numbers
\* of page_table_, each once, and every entry of page_table_ refers to a Page object
\* of that page number (never to none).
C17_IndexMatchesRecency ==
    latch_ = NoThread =>
        /\ {lru_list_[i] : i \in 1..Len(lru_list_)} = Resident
        /\ Len(lru_list_) = Cardinality(Resident)
        /\ \A k \in Resident : frames[page_table_[k]].id = k

\* C17 witness: after insertions that filled the index and an eviction, with the
\* mutex free, the index and the list hold the same MaxCapacity pages
C17_Witness ==
    /\ latch_ = NoThread
    /\ evicted # {}
    /\ Len(lru_list_) = MaxCapacity
    /\ {lru_list_[i] : i \in 1..Len(lru_list_)} = Resident
    /\ \E t \in Threads : pc[t] = "done"

\* C18: every frame in page_table_ has loaded = true: a frame whose load_from_fd
\* failed for good is not inserted (the miss hands back no frame).
C18_ResidentIsLoaded ==
    \A k \in Resident : frames[page_table_[k]].loaded

\* C19: with one calling thread, when the load of a miss fails for good, that call
\* is counted neither as a hit nor as a miss: the counters add up to the number of
\* calls that returned before it.
C19_FailedLoadNotCounted ==
    [][\A t \in Threads :
          (pc[t] = "LoadPageFromDisk" /\ pc'[t] # pc[t] /\ ~frames'[page_table_'[no[t]]].loaded)
             => hit_count_' + miss_count_' = completed']_vars

\* C21: under any interleaving of pin() and unpin() calls of several threads on one
\* frame, the pin count is never negative, and while no unpin() is between its two
\* atomic operations the count is the number of pins taken and not given back: the
\* clamp of an unpin() on a zero count loses no pin of a concurrent pin().
C21_PinCountNeverLost ==
    /\ frames[ThePage].pin_count >= 0
    /\ (\A t \in Threads : pc[t] = "idle") => frames[ThePage].pin_count = held

\* guards that are alive and hold frame f
LiveGuards(f) == {g \in GuardIds : guards[g].alive /\ guards[g].page = f}

\* C22: after any sequence of constructions, move-constructions, move-assignments and
\* destructions of PinGuard objects, the pin count of the frame is the number of live
\* guards that hold it (so it is back to 0 once every guard is destroyed).
C22_PinCountIsLiveGuards ==
    frames[ThePage] # NullPage =>
        frames[ThePage].pin_count = Cardinality(LiveGuards(ThePage))

\* a flush_to_fd of frame f is between its entry and its return
Flushing(f) ==
    \E t \in Threads : pc[t] \in {"flush_to_fd", "pwrite"} /\ page_table_[victim] = f

\* a WriteAt on frame f has been called and has not returned
Writing(f) == \E t \in Threads : pc[t] \in {"WriteAt", "WriteCopy"} /\ page[t] = f

\* C23: a resident frame that is loaded and not dirty, with no WriteAt and no flush in
\* progress on it, holds the bytes the file holds for its page: a WriteAt that runs
\* while flush_to_fd writes its scratch copy does not end with dirty cleared and its
\* bytes unwritten.
C23_CleanFrameMatchesFile ==
    \A k \in PageIds :
        LET f == page_table_[k] IN
        (f # NoFrame /\ frames[f].loaded /\ ~frames[f].dirty /\ ~Flushing(f) /\ ~Writing(f))
            => frames[f].data = FilePage(file, k, frames[f].size)

\* C24: flush_to_fd returns false without I/O when the frame is not loaded and true
\* without I/O when it is loaded and not dirty; otherwise it writes all size bytes of
\* the buffer at file_offset and clears dirty, or, when a pwrite fails for good, returns
\* false and leaves dirty set.
C24_FlushToFdContract ==
    [][LET pg == frames[ThePage] IN
       /\ (calls' = calls + 1 /\ op'[1] = "flush_to_fd") =>
             /\ file' = file /\ frames' = frames
             /\ IF ~pg.loaded THEN pc'[1] = "idle" /\ local'[1].ret = FALSE
                ELSE IF ~pg.dirty THEN pc'[1] = "idle" /\ local'[1].ret = TRUE
                ELSE pc'[1] = "tmp" /\ local'[1].tmp = pg.data
       /\ (pc[1] = "tmp" /\ pc'[1] = "idle") =>
             IF local'[1].ret
             THEN /\ file' = WriteBytes(file, local[1].file_offset, pg.data, 0, pg.size)
                  /\ frames' = [frames EXCEPT ![ThePage].dirty = FALSE]
             ELSE /\ frames' = frames
                  /\ pg.dirty]_vars

\* C24 witness: a flush of a dirty frame failed after part of the buffer was written:
\* it returned false and the frame is still dirty
C24_Witness ==
    /\ pc[1] = "idle" /\ op[1] = "flush_to_fd"
    /\ ~local[1].ret
    /\ frames[ThePage].loaded /\ frames[ThePage].dirty
    /\ file # file0

\* C28: for every offset and length, ReadAt and WriteAt touch only bytes of the page
\* buffer: with offset < size they copy min(len, size - offset) bytes and return that
\* count (ReadAt returns 0 and copies nothing when the frame is not loaded), with
\* offset >= size they return 0 and change nothing (WriteAt leaves the buffer, dirty
\* and loaded as they were).
C28_CopyStaysInPage ==
    [][LET pg == frames[ThePage]
           off == local'[1].offset
           n == local'[1].len
           m == IF n <= pg.size - off THEN n ELSE pg.size - off
       IN
       /\ (calls' = calls + 1 /\ op'[1] = "WriteAt") =>
             IF off < pg.size
             THEN /\ local'[1].ret = m
                  /\ DOMAIN frames'[ThePage].data = 1..pg.size
                  /\ \A i \in 1..pg.size :
                        frames'[ThePage].data[i] =
                            IF i > off /\ i <= off + m THEN buf'[1][i - off] ELSE pg.data[i]
                  /\ frames'[ThePage].loaded /\ frames'[ThePage].dirty
             ELSE /\ local'[1].ret = 0
                  /\ frames' = frames
       /\ (calls' = calls + 1 /\ op'[1] = "ReadAt") =>
             /\ frames' = frames
             /\ DOMAIN buf'[1] = 1..n
             /\ IF off < pg.size /\ pg.loaded
                THEN /\ local'[1].ret = m
                     /\ \A i \in 1..n :
                           buf'[1][i] = IF i <= m THEN pg.data[off + i] ELSE Poison
                ELSE /\ local'[1].ret = 0
                     /\ buf'[1] = ReadBuf(n)]_vars

\* C28 witness: a WriteAt at the last byte of the page with a longer buffer wrote that
\* one byte and returned 1
C28_Witness ==
    /\ pc[1] = "idle" /\ op[1] = "WriteAt"
    /\ local[1].offset = PageSize - 1 /\ local[1].len = PageSize + 1
    /\ local[1].ret = 1
    /\ frames[ThePage].data[PageSize] = buf[1][1]
    /\ frames[ThePage].dirty

\* the threads that hold the latch of frame f in shared and in exclusive mode
SharedHolders(f) == {u \in Threads : pc[u] = "ReadCopy" /\ page[u] = f}
ExclusiveHolders(f) == {u \in Threads : pc[u] = "WriteCopy" /\ page[u] = f}

\* C25: while flush_to_fd runs its pwrite loop the flushing thread holds the latch of
\* the frame in no mode: the latch is held only by the threads inside the copy of a
\* ReadAt or WriteAt on that frame, and a ReadAt called on the frame takes the shared
\* latch at once unless such a writer holds it.
C25_FlusherHoldsNoLatch ==
    \A t \in Threads :
        pc[t] = "pwrite" =>
            LET f == page_table_[victim] IN
            /\ frames[f].readers = Cardinality(SharedHolders(f))
            /\ frames[f].writer <=> ExclusiveHolders(f) # {}
            /\ \A u \in Threads :
                  (pc[u] = "ReadAt" /\ page[u] = f /\ ExclusiveHolders(f) = {})
                      => ENABLED ReadAt(u)

\* C25 witness: a flush is in its pwrite loop and another thread is inside the copy of
\* a ReadAt on the same frame, holding the shared latch
C25_Witness ==
    \E t, u \in Threads :
        /\ pc[t] = "pwrite"
        /\ pc[u] = "ReadCopy" /\ page[u] = page_table_[victim]
        /\ frames[page[u]].readers = 1

\* C26: in every interleaving of pool operations a frame latch is held only by a
\* thread inside the copy of its one ReadAt or WriteAt, which does not hold the pool
\* mutex and holds no other latch; and while some call is in progress some thread can
\* take a step: no state is a deadlock among the pool mutex and the frame latches.
C26_NoLatchDeadlock ==
    /\ \A f \in FrameIds :
          /\ frames[f].readers = Cardinality(SharedHolders(f))
          /\ frames[f].writer <=> ExclusiveHolders(f) # {}
          /\ Cardinality(ExclusiveHolders(f)) <= 1
          /\ \A u \in SharedHolders(f) \cup ExclusiveHolders(f) : latch_ # u
    /\ (\E t \in Threads : pc[t] \notin {"idle", "done"}) => \E t \in Threads : ENABLED Step(t)

\* C26 witness: the holder of the pool mutex waits in flush_to_fd for the latch of the
\* victim, which a thread inside WriteAt holds exclusively
C26_Witness ==
    \E t, u \in Threads :
        /\ latch_ = t /\ pc[t] = "flush_to_fd"
        /\ pc[u] = "WriteCopy" /\ page[u] = page_table_[victim]
        /\ ~ENABLED Step(t)

\* C27: a thread in read_page / write_page holds the pool mutex only inside GetPage
\* (lookup, touch, eviction, load, insert): from the PinGuard on, through the copy of
\* ReadAt / WriteAt and the unpin, it does not hold it.
C27_MutexFreeWhileCopying ==
    \A t \in Threads :
        /\ latch_ = t => InGetPage(t)
        /\ pc[t] \in {"PinGuard", "ReadAt", "ReadCopy", "WriteAt", "WriteCopy", "unpin"}
              => latch_ # t

\* C27 witness: two threads are inside the copy of two different resident pages at the
\* same time, each with bytes already copied, and nobody holds the mutex
C27_Witness ==
    \E t, u \in Threads :
        /\ pc[t] \in {"ReadCopy", "WriteCopy"} /\ idx[t] > 0
        /\ pc[u] \in {"ReadCopy", "WriteCopy"} /\ idx[u] > 0
        /\ no[t] # no[u]
        /\ page_table_[no[t]] = page[t] /\ page_table_[no[u]] = page[u]
        /\ latch_ = NoThread

\* C29: once the payload of a SET request could not be read in full, the worker is
\* done with the connection: it calls no write_page, sends no response and reads no
\* further header from that socket.
C29_ShortPayloadEndsConnection ==
    [][\A t \in Threads :
          t \in short_read' =>
              /\ t \in short_read => heard'[t] = heard[t]
              /\ sent'[t] = sent[t]
              /\ pc'[t] \notin {"GetPage", "done"}]_vars

\* the calls that hold a PinGuard on frame f: constructed, and the call not yet returned
Pinners(f) ==
    {t \in Threads : pc[t] \in {"ReadAt", "ReadCopy", "WriteAt", "WriteCopy", "unpin"}
                     /\ page[t] = f}

\* every thread but t is outside read_page / write_page, or waits for the mutex
OthersQuiet(t) == \A u \in Threads \ {t} : pc[u] \in {"idle", "done", "GetPage"}

\* C30: a frame is pinned only between the construction of a PinGuard and the return
\* of the call that made it, once per such call; so when no read_page / write_page is
\* in progress every resident frame has pin_count 0, and the eviction walk of a miss
\* that runs with no other call in progress and found nothing pinned takes the frame
\* it looks at as its victim.
C30_PinnedOnlyDuringCall ==
    [][/\ \A f \in FrameIds :
             frames'[f].id # NoPage => frames'[f].pin_count = Cardinality(Pinners(f))'
       /\ (\A t \in Threads : pc'[t] \in {"idle", "done"})
             => \A k \in PageIds :
                   page_table_'[k] # NoFrame => frames'[page_table_'[k]].pin_count = 0
       /\ \A t \in Threads :
             (/\ pc[t] = "EvictIfNeeded"
              /\ <<pc'[t], it'>> # <<pc[t], it>>
              /\ OthersQuiet(t)
              /\ skipped = {})
                => pc'[t] = "FlushPage" /\ victim' = lru_list_[Len(lru_list_)]]_vars

\* C30 witness: calls have returned, the index is full, nothing else runs, and a miss
\* has just taken the least recently used page as its victim
C30_Witness ==
    \E t \in Threads :
        /\ pc[t] = "FlushPage" /\ OthersQuiet(t) /\ skipped = {}
        /\ completed >= capacity_
        /\ Len(lru_list_) = capacity_
        /\ victim = lru_list_[Len(lru_list_)]
        /\ \A k \in PageIds :
              page_table_[k] # NoFrame => frames[page_table_[k]].pin_count = 0

\* what the pool keeps of a frame apart from its pin count and latch
Content(pg) == <<pg.id, pg.size, pg.data, pg.dirty, pg.loaded>>

\* C32: a read_page that hits changes only the order of lru_list_ (its page moves to
\* the front, the others keep their order) and hit_count_; none of its steps changes
\* the resident set, the bytes or the dirty and loaded flags of a resident frame,
\* miss_count_ or the file, and it raises the pin count of its frame by one at the
\* PinGuard and lowers it by one at the unpin, touching no other pin count.
C32_ReadHitEffect ==
    [][\A t \in Threads :
          (op[t] = "read" /\ <<pc'[t], idx'[t]>> # <<pc[t], idx[t]>>) =>
              /\ (pc[t] = "GetPage" /\ page_table_[no[t]] # NoFrame) =>
                    /\ hit_count_' = hit_count_ + 1
                    /\ miss_count_' = miss_count_
                    /\ lru_list_' = <<no[t]>> \o SelectSeq(lru_list_, LAMBDA k : k # no[t])
                    /\ page_table_' = page_table_
                    /\ frames' = frames
                    /\ file' = file
              /\ pc[t] \in {"PinGuard", "ReadAt", "ReadCopy", "unpin"} =>
                    /\ poolVars' = poolVars
                    /\ file' = file
                    /\ \A f \in FrameIds :
                          Mapped(f) =>
                              /\ Content(frames'[f]) = Content(frames[f])
                              /\ frames'[f].pin_count =
                                    IF f # page[t] THEN frames[f].pin_count
                                    ELSE IF pc[t] = "PinGuard" THEN frames[f].pin_count + 1
                                    ELSE IF pc[t] = "unpin" THEN frames[f].pin_count - 1
                                    ELSE frames[f].pin_count]_vars

\* C32 witness: one thread wrote a page (a miss) and then read it (a hit); the read
\* has returned the written bytes, the frame is still dirty and unpinned
C32_Witness ==
    \E t \in Threads :
        /\ \A u \in Threads \ {t} : pc[u] = "idle"
        /\ pc[t] = "done" /\ op[t] = "read"
        /\ calls = 2 /\ completed = 2
        /\ hit_count_ = 1 /\ miss_count_ = 1
        /\ lru_list_ = <<no[t]>>
        /\ frames[page_table_[no[t]]].dirty
        /\ frames[page_table_[no[t]]].pin_count = 0
        /\ buf[t] = frames[page_table_[no[t]]].data

\* C31: under fair scheduling every read_page / write_page call a thread started
\* eventually returns: it does not wait for ever for the pool mutex or a frame latch,
\* and the loops of load_from_fd and flush_to_fd end.
C31_EveryCallReturns ==
    \A t \in Threads : (pc[t] \notin {"idle", "done"}) ~> (pc[t] = "done")

\* C31 witness: a call waits for the pool mutex while its holder is in the pwrite loop
\* of flush_to_fd
C31_Witness ==
    \E t, u \in Threads :
        /\ pc[t] = "GetPage"
        /\ latch_ = u
        /\ pc[u] = "pwrite"

\* C33: in SimpleBufferPool used by several workers, whether or not two of them
\* share a descriptor, the read of read_page(no) returns the bytes stored at
\* page_start_offset(no) and the write of write_page(no) puts its bytes at
\* page_start_offset(no)
C33_SeekReadWriteUndisturbed ==
    [][\A t \in Threads :
          /\ (pc[t] = "sys_read" /\ pc'[t] # "sys_read")
                => buf'[t] = ReadBytes(file, local[t].offset, buf[t], page_size[t])
          /\ (pc[t] = "sys_write" /\ pc'[t] # "sys_write")
                => file' = WriteBytes(file, local[t].offset, buf[t], 0, page_size[t])]_vars

====
